---- MODULE Spec2Model ----
(***************************************************************************)
(* Farm Management Dashboard (Odoo add-on): the access resolver            *)
(* (models/dashboard_access.py), the dashboard configuration entry point   *)
(* (models/farm_dashboard.py), the data facade's gate and project          *)
(* operations (models/dashboard_data.py) and the change-notification       *)
(* forwarder (models/dashboard_bus_handlers.py).                           *)
(*                                                                         *)
(* The host ORM is modelled by what the code relies on: search returns the *)
(* matching record of lowest id, create and write either apply the values  *)
(* or raise and leave the table as it was, has_group is plain membership.  *)
(***************************************************************************)
EXTENDS Integers, Sequences, FiniteSets, TLC

(* ------------------------------ bounds -------------------------------- *)
NumUsers == 1
MaxAccess == 2
NumCallers == 1

Users == 1..NumUsers
AccessIds == 1..MaxAccess
Callers == 1..NumCallers

(* --------------------------- fixed vocabulary -------------------------- *)
GroupSystem == "base.group_system"
GroupErpManager == "base.group_erp_manager"
GroupFarmOwner == "farm_management_dashboard.group_farm_owner"
GroupFarmManager == "farm_management_dashboard.group_farm_manager"
GroupFarmAccountant == "farm_management_dashboard.group_farm_accountant"
GroupDashboardAccess == "farm_management_dashboard.group_farm_dashboard_access"
GroupFarmUser == "farm_management.group_farm_user"

GroupNames ==
  {GroupSystem, GroupErpManager, GroupFarmOwner, GroupFarmManager,
   GroupFarmAccountant, GroupDashboardAccess, GroupFarmUser}

Tabs ==
  {"overview", "projects", "crops", "financials", "sales", "purchases",
   "inventory", "reports"}

Capabilities == {"export_data", "modify_filters", "view_costs", "view_profits"}

TabFlag(t) == "can_access_" \o t

CapFlag(c) == "can_" \o c

TabFlags == {TabFlag(t) : t \in Tabs}

CapFlags == {CapFlag(c) : c \in Capabilities}

Flags == TabFlags \cup CapFlags

\* role = fields.Selection([...], required=True)
Roles == {"owner", "manager", "accountant"}

NoRole == "none"

NoRecord == 0

EmptyDict == [k \in {} |-> FALSE]

\* dict.update: the keys of b win
DictUpdate(a, b) ==
  [k \in (DOMAIN a) \cup (DOMAIN b) |-> IF k \in DOMAIN b THEN b[k] ELSE a[k]]

\* dict.get(key, default)
DictGet(d, k, default) == IF k \in DOMAIN d THEN d[k] ELSE default

(* ----------------------------- variables ------------------------------ *)
VARIABLES
  groups,   \* res.users: groups[u] = the security groups user u belongs to
  access,   \* farm.dashboard.access table: id -> record, over the ids that exist
  calls,    \* get_user_permissions calls in flight, per caller
  projects, \* farm.cultivation.project table: id -> record, over the ids that exist
  bus,      \* the bus.bus._sendone calls of the last operation, in order
  crops,    \* farm.crop table: the names of the crops that exist
  filters,  \* the filters the dashboard client sends with its requests
  dashboards, \* farm.dashboard table: id -> record, over the ids that exist
  resp      \* what the last operation returned or raised

vars == <<groups, access, calls, projects, bus, crops, filters, dashboards, resp>>

accessVars == <<groups, access, calls>>

projectVars == <<projects, bus, crops, filters, dashboards>>

(* ------------------- farm.dashboard.access: the model ------------------ *)
\* the Boolean fields' declared defaults
FieldDefaults ==
  [f \in Flags |->
     f \in {"can_access_overview", "can_access_projects", "can_access_crops",
            "can_access_reports", "can_modify_filters"}]

get_role_permissions(role) ==
  IF role = "owner" THEN [f \in Flags |-> TRUE]
  ELSE IF role = "manager" THEN [f \in Flags |-> f # "can_view_profits"]
  ELSE IF role = "accountant"
    THEN [f \in Flags |->
            f \notin {"can_access_projects", "can_access_crops", "can_modify_filters"}]
  ELSE EmptyDict

\* a create or write that lets the flags given in vals win over the template
RoleDefaulted_setdefault(vals) ==
  IF vals.role # NoRole
    THEN [vals EXCEPT !.flags = DictUpdate(get_role_permissions(vals.role), @)]
    ELSE vals

\* vals: [role |-> a role or NoRole when the key is absent,
\*        user_id |-> a user or 0 when absent, flags |-> dict over flag names]
RoleDefaulted(vals) ==
  IF vals.role # NoRole
    THEN [vals EXCEPT !.flags = DictUpdate(@, get_role_permissions(vals.role))]
    ELSE vals

\* super().create of one vals: a new row, declared defaults for absent fields
NewRecord(vals) ==
  [user_id |-> vals.user_id,
   role |-> vals.role,
   active |-> TRUE,
   flags |-> DictUpdate(FieldDefaults, vals.flags)]

\* super().write of vals on one row
WrittenRecord(rec, vals) ==
  [rec EXCEPT !.role = IF vals.role # NoRole THEN vals.role ELSE @,
              !.flags = DictUpdate(@, vals.flags)]

FreeAccessIds(table) == AccessIds \ DOMAIN table

MinOf(S) == CHOOSE x \in S : \A y \in S : x <= y

\* FarmDashboardAccess.create for one vals (model_create_multi applies it per vals)
AccessCreated(table, vals) ==
  LET id == MinOf(FreeAccessIds(table))
      v == RoleDefaulted(vals)
  IN [i \in (DOMAIN table) \cup {id} |-> IF i = id THEN NewRecord(v) ELSE table[i]]

\* FarmDashboardAccess.write on the recordset ids
AccessWritten(table, ids, vals) ==
  LET v == RoleDefaulted(vals)
  IN [i \in DOMAIN table |-> IF i \in ids THEN WrittenRecord(table[i], v) ELSE table[i]]

\* self.search([('user_id', '=', user_id), ('active', '=', True)], limit=1)
SearchAccess(table, user) ==
  LET hits == {i \in DOMAIN table : table[i].user_id = user /\ table[i].active}
  IN IF hits = {} THEN NoRecord ELSE MinOf(hits)

(* ------------------------- role resolution ----------------------------- *)
has_group(gs, g) == g \in gs

\* the chain with the manager and the accountant test in the other order
ResolveRole_accountantFirst(gs) ==
  IF has_group(gs, GroupSystem) \/ has_group(gs, GroupErpManager) THEN "owner"
  ELSE IF has_group(gs, GroupFarmOwner) THEN "owner"
  ELSE IF has_group(gs, GroupFarmAccountant) THEN "accountant"
  ELSE IF has_group(gs, GroupFarmManager) THEN "manager"
  ELSE NoRole

\* get_user_permissions, the if/elif chain over the user's groups
ResolveRole(gs) ==
  IF has_group(gs, GroupSystem) \/ has_group(gs, GroupErpManager) THEN "owner"
  ELSE IF has_group(gs, GroupFarmOwner) THEN "owner"
  ELSE IF has_group(gs, GroupFarmManager) THEN "manager"
  ELSE IF has_group(gs, GroupFarmAccountant) THEN "accountant"
  ELSE NoRole

\* the permission set returned for a user without any role
NoAccessPermissions ==
  [role |-> "no_access",
   tabs |-> [t \in Tabs |-> FALSE],
   permissions |-> [c \in Capabilities |-> FALSE]]

\* the permission set read off an access record
RecordPermissions(rec) ==
  [role |-> rec.role,
   tabs |-> [t \in Tabs |-> rec.flags[TabFlag(t)]],
   permissions |-> [c \in Capabilities |-> rec.flags[CapFlag(c)]]]

\* the fallback after a failed create: the template, read with dict.get defaults
FallbackPermissions(role) ==
  LET permissions == get_role_permissions(role)
  IN [role |-> role,
      tabs |-> [t \in Tabs |-> DictGet(permissions, TabFlag(t), TRUE)],
      permissions |->
        [c \in Capabilities |->
           DictGet(permissions, CapFlag(c), c \in {"modify_filters", "view_costs"})]]

(* ------------------------------ inputs --------------------------------- *)
\* the flags an administrator's form may carry next to (or without) a role
CustomFlags == {"can_access_projects", "can_view_profits"}

FlagInputs ==
  UNION {[S -> BOOLEAN] : S \in SUBSET CustomFlags}

CreateValsInputs ==
  [role : Roles, user_id : Users, flags : FlagInputs]

WriteValsInputs ==
  [role : Roles \cup {NoRole}, user_id : {0}, flags : FlagInputs]

Idle == [pc |-> "idle", user |-> 0, role |-> NoRole, rec |-> NoRecord, snap |-> EmptyDict]

NoResponse == [op |-> "none"]

(* ------------------------------- Init ---------------------------------- *)
Init ==
  /\ groups = [u \in Users |-> {}]
  /\ access = EmptyDict
  /\ calls = [c \in Callers |-> Idle]
  /\ projects = EmptyDict
  /\ bus = <<>>
  /\ crops = {}
  /\ filters = EmptyDict
  /\ dashboards = EmptyDict
  /\ resp = NoResponse

(* --------------------- administration of the tables -------------------- *)
InFlight(u) == \E c \in Callers : calls[c].pc # "idle" /\ calls[c].user = u

\* an administrator adds a user to, or removes a user from, a security group;
\* a request reads the membership in its own transaction, so a change is
\* ordered before or after a request of that user
SetGroup(u, g) ==
  /\ ~InFlight(u)
  /\ groups' = [groups EXCEPT ![u] = IF g \in @ THEN @ \ {g} ELSE @ \cup {g}]
  /\ resp' = [op |-> "set_group", user |-> u]
  /\ UNCHANGED <<access, calls, projectVars>>

\* FarmDashboardAccess.create([vals])
AccessCreate(vals) ==
  /\ FreeAccessIds(access) # {}
  /\ access' = AccessCreated(access, vals)
  /\ resp' = [op |-> "access.create", ids |-> {MinOf(FreeAccessIds(access))},
              with_role |-> vals.role # NoRole]
  /\ UNCHANGED <<groups, calls, projectVars>>

\* FarmDashboardAccess.write(vals) on a recordset
AccessWrite(ids, vals) ==
  /\ ids # {}
  /\ ids \subseteq DOMAIN access
  /\ access' = AccessWritten(access, ids, vals)
  /\ resp' = [op |-> "access.write", ids |-> ids, with_role |-> vals.role # NoRole]
  /\ UNCHANGED <<groups, calls, projectVars>>

\* unlink of an access record (the host's own method, not overridden)
AccessUnlink(id) ==
  /\ id \in DOMAIN access
  /\ access' = [i \in (DOMAIN access) \ {id} |-> access[i]]
  /\ resp' = [op |-> "access.unlink", ids |-> {id}]
  /\ UNCHANGED <<groups, calls, projectVars>>

(* ------------------------ get_user_permissions ------------------------- *)
\* lines 103-159: the role from the groups; no role returns at once, else search
get_user_permissions_search(c, u) ==
  /\ calls[c].pc = "idle"
  /\ LET role == ResolveRole(groups[u])
         rec == SearchAccess(access, u)
     IN IF role = NoRole
          THEN /\ resp' = [op |-> "get_user_permissions", user |-> u,
                           persist |-> "none", result |-> NoAccessPermissions]
               /\ calls' = calls
          ELSE /\ calls' = [calls EXCEPT ![c] =
                             [pc |-> "searched", user |-> u, role |-> role, rec |-> rec,
                              snap |-> IF rec = NoRecord THEN EmptyDict ELSE access[rec]]]
               /\ resp' = NoResponse
  /\ UNCHANGED <<groups, access, projectVars>>

\* lines 163-168: the stored role disagrees, the record is rewritten; a failure
\* of the write is logged and the record handle keeps what it held
HealStale(c, raises) ==
  LET k == calls[c]
      ok == ~raises /\ k.rec \in DOMAIN access
      table == IF ok
                 THEN AccessWritten(access, {k.rec},
                                    [role |-> k.role, user_id |-> 0, flags |-> EmptyDict])
                 ELSE access
  IN [table |-> table,
      persist |-> IF ok THEN "write" ELSE "write_failed",
      result |-> RecordPermissions(IF ok THEN table[k.rec] ELSE k.snap)]

\* lines 171-182 and 207-227: no record, one is created; a failure of the create
\* is logged and the role's template is returned
CreateMissing(c, raises) ==
  LET k == calls[c]
      ok == ~raises /\ FreeAccessIds(access) # {}
      table == IF ok
                 THEN AccessCreated(access,
                                    [role |-> k.role, user_id |-> k.user, flags |-> EmptyDict])
                 ELSE access
  IN [table |-> table,
      persist |-> IF ok THEN "create" ELSE "create_failed",
      result |-> IF ok
                   THEN RecordPermissions(table[MinOf(FreeAccessIds(access))])
                   ELSE FallbackPermissions(k.role)]

\* lines 161-227
get_user_permissions_finish(c, raises) ==
  /\ calls[c].pc = "searched"
  /\ LET k == calls[c]
         out == IF k.rec # NoRecord /\ k.snap.role # k.role THEN HealStale(c, raises)
                ELSE IF k.rec = NoRecord THEN CreateMissing(c, raises)
                ELSE [table |-> access, persist |-> "none",
                      result |-> RecordPermissions(k.snap)]
     IN /\ access' = out.table
        /\ resp' = [op |-> "get_user_permissions", user |-> k.user,
                    persist |-> out.persist, result |-> out.result]
  /\ calls' = [calls EXCEPT ![c] = Idle]
  /\ UNCHANGED <<groups, projectVars>>

(* ------------------------- get_dashboard_data -------------------------- *)
\* FarmDashboard._check_dashboard_access (farm_dashboard.py)
FarmDashboard_check_dashboard_access(gs) ==
  IF has_group(gs, GroupSystem) THEN TRUE
  ELSE IF has_group(gs, GroupDashboardAccess) THEN TRUE
  ELSE IF has_group(gs, GroupFarmUser) THEN TRUE
  ELSE FALSE

\* FarmDashboardData._check_dashboard_access (dashboard_data.py): the last line
\* allows any logged-in user
FarmDashboardData_check_dashboard_access(gs) ==
  IF has_group(gs, GroupSystem) THEN TRUE
  ELSE IF has_group(gs, GroupDashboardAccess) THEN TRUE
  ELSE IF has_group(gs, GroupFarmUser) THEN TRUE
  ELSE TRUE

\* FarmDashboardData._get_user_role
get_user_role(gs) ==
  IF has_group(gs, GroupFarmOwner) THEN "owner"
  ELSE IF has_group(gs, GroupFarmManager) THEN "manager"
  ELSE IF has_group(gs, GroupFarmAccountant) THEN "accountant"
  ELSE "user"

NoTab == ""

TabInputs == Tabs \cup {NoTab, "settings"}

\* the dispatch with another default: a tab outside method_map runs the
\* reports handler
DispatchedHandler_reportsDefault(tab) ==
  LET t == IF tab = NoTab THEN "overview" ELSE tab
  IN IF t \in Tabs THEN t ELSE "reports"

\* tab = tab or 'overview'; a tab outside method_map runs the overview handler
DispatchedHandler(tab) ==
  LET t == IF tab = NoTab THEN "overview" ELSE tab
  IN IF t \in Tabs THEN t ELSE "overview"

\* FarmDashboardData.get_dashboard_data: the gate, the role, the dispatch; the
\* UserError of a refused gate is caught by the method's own except clause
FarmDashboardData_get_dashboard_data(gs, tab) ==
  IF ~FarmDashboardData_check_dashboard_access(gs)
    THEN [kind |-> "error", handler |-> "none", user_role |-> "none"]
    ELSE [kind |-> "data", handler |-> DispatchedHandler(tab),
          user_role |-> get_user_role(gs)]

\* FarmDashboard.get_dashboard_data: AccessError, or the facade's answer
FarmDashboard_get_dashboard_data(gs, tab) ==
  IF ~FarmDashboard_check_dashboard_access(gs)
    THEN [kind |-> "AccessError", handler |-> "none", user_role |-> "none"]
    ELSE FarmDashboardData_get_dashboard_data(gs, tab)

Entries == {"farm.dashboard", "farm.dashboard.data"}

\* the RPC, on either model
get_dashboard_data(entry, u, tab) ==
  /\ ~InFlight(u)
  /\ resp' = [op |-> "get_dashboard_data", entry |-> entry, user |-> u, tab |-> tab,
              result |-> IF entry = "farm.dashboard"
                           THEN FarmDashboard_get_dashboard_data(groups[u], tab)
                           ELSE FarmDashboardData_get_dashboard_data(groups[u], tab)]
  /\ UNCHANGED <<groups, access, calls, projectVars>>

(* --------------------------- specification ----------------------------- *)
\* the groups get_user_permissions reads
RoleGroups ==
  {GroupSystem, GroupErpManager, GroupFarmOwner, GroupFarmManager, GroupFarmAccountant}

AdminAccess ==
  \/ \E vals \in CreateValsInputs : AccessCreate(vals)
  \/ \E ids \in SUBSET AccessIds, vals \in WriteValsInputs : AccessWrite(ids, vals)
  \/ \E id \in AccessIds : AccessUnlink(id)

\* the access records of one user under administration alone
NextAccessCrud ==
  \/ \E vals \in CreateValsInputs : vals.user_id = 1 /\ AccessCreate(vals)
  \/ \E ids \in SUBSET AccessIds, vals \in WriteValsInputs : AccessWrite(ids, vals)
  \/ \E id \in AccessIds : AccessUnlink(id)

SpecAccessCrud == Init /\ [][NextAccessCrud]_vars

\* the resolver, over changing group membership and administered records; a
\* request is one transaction, administration is ordered before or after it
NextAccess ==
  \/ \E u \in Users, g \in RoleGroups : SetGroup(u, g)
  \/ (\A c \in Callers : calls[c].pc = "idle") /\ AdminAccess
  \/ \E c \in Callers, u \in Users : get_user_permissions_search(c, u)
  \/ \E c \in Callers, raises \in BOOLEAN : get_user_permissions_finish(c, raises)

SpecAccess == Init /\ [][NextAccess]_vars

\* the data RPC, over changing group membership
NextFacade ==
  \/ \E u \in Users, g \in GroupNames : SetGroup(u, g)
  \/ \E e \in Entries, u \in Users, tab \in TabInputs : get_dashboard_data(e, u, tab)

SpecFacade == Init /\ [][NextFacade]_vars

(* ------------- farm.cultivation.project and the notification bus -------- *)
MaxProjects == 2

ProjectIds == 1..MaxProjects

Companies == {1, 2}

Dates == {1}

Amounts == {0, 1}

NoDate == 0

NoCompany == 0

\* valid_states of update_project_status
ProjectStates ==
  {"draft", "planning", "preparation", "sowing", "growing", "harvest", "sales",
   "done", "cancel"}

FinancialFields == {"budget", "actual_cost", "revenue"}

\* DictUpdate over the fields of a row: the host's write of vals
HostWritten(rec, vals) ==
  [f \in DOMAIN rec |-> IF f \in DOMAIN vals THEN vals[f] ELSE rec[f]]

\* the host's create of one project: absent fields take their defaults, the
\* company the current one
NewProject(vals, env_company) ==
  HostWritten([state |-> "draft", start_date |-> NoDate, planned_end_date |-> NoDate,
               actual_end_date |-> NoDate, company_id |-> env_company,
               budget |-> 0, actual_cost |-> 0, revenue |-> 0], vals)

RECURSIVE Ascending(_)
\* a recordset iterates in id order
Ascending(S) ==
  IF S = {} THEN <<>> ELSE <<MinOf(S)>> \o Ascending(S \ {MinOf(S)})

Range(q) == {q[i] : i \in DOMAIN q}

\* a channel named after the current company whatever the record's company
get_dashboard_channel_currentCompany(company_id, env_company) ==
  "farm_dashboard_" \o ToString(env_company)

\* _get_dashboard_channel
get_dashboard_channel(company_id, env_company) ==
  LET id == IF company_id = NoCompany THEN env_company ELSE company_id
  IN "farm_dashboard_" \o ToString(id)

\* a bus failure that escapes the forwarder
send_dashboard_notification_unguarded(m, env_company, failing) ==
  [call |-> [type |-> m.type, for_id |-> m.for_id,
             channel |-> get_dashboard_channel(m.company_id, env_company),
             delivered |-> m.type \notin failing],
   raised |-> m.type \in failing]

\* _send_dashboard_notification: one _sendone call; the bus refuses the message
\* types in failing, and the exception is caught and logged
send_dashboard_notification(m, env_company, failing) ==
  [call |-> [type |-> m.type, for_id |-> m.for_id,
             channel |-> get_dashboard_channel(m.company_id, env_company),
             delivered |-> m.type \notin failing],
   raised |-> FALSE]

\* _invalidate_dashboard_cache
InvalidateCache(id, company_id) ==
  [type |-> "invalidate_cache", for_id |-> id, company_id |-> company_id]

RECURSIVE SendAll(_, _, _, _)
\* the handler's notifications in order; an exception that leaves
\* _send_dashboard_notification ends the handler
SendAll(sends, env_company, failing, log) ==
  IF sends = <<>> THEN [log |-> log, raised |-> FALSE]
  ELSE LET r == send_dashboard_notification(Head(sends), env_company, failing)
       IN IF r.raised THEN [log |-> Append(log, r.call), raised |-> TRUE]
          ELSE SendAll(Tail(sends), env_company, failing, Append(log, r.call))

(* CultivationProjectBusHandler *)
RECURSIVE HostCreate(_, _, _, _)
\* super().create(vals_list): one new row per vals, ids in order
HostCreate(table, vals_list, env_company, ids) ==
  IF vals_list = <<>> THEN [table |-> table, ids |-> ids]
  ELSE LET id == MinOf(ProjectIds \ DOMAIN table)
           t == [i \in (DOMAIN table) \cup {id} |->
                   IF i = id THEN NewProject(Head(vals_list), env_company) ELSE table[i]]
       IN HostCreate(t, Tail(vals_list), env_company, Append(ids, id))

RECURSIVE CreateSends(_, _)
\* create, the loop over result
CreateSends(ids, table) ==
  IF ids = <<>> THEN <<>>
  ELSE LET id == Head(ids)
       IN <<[type |-> "project_created", for_id |-> id,
             company_id |-> table[id].company_id],
            InvalidateCache(id, table[id].company_id)>>
          \o CreateSends(Tail(ids), table)

\* CultivationProjectBusHandler.create
project_create(table, vals_list, env_company, failing) ==
  LET h == HostCreate(table, vals_list, env_company, <<>>)
      out == SendAll(CreateSends(h.ids, h.table), env_company, failing, <<>>)
  IN [table |-> h.table, ids |-> h.ids, log |-> out.log, raised |-> out.raised]

\* write, the state test: 'state' in vals and the old state differs from the new
StateChanged(old, new, vals) == "state" \in DOMAIN vals /\ old.state # new.state

\* write, the financial test: one of the three fields is a key of vals
FinancialTouched(vals) == \E f \in FinancialFields : f \in DOMAIN vals

RECURSIVE WriteSends(_, _, _, _)
\* write, the loop over self
WriteSends(ids, old, new, vals) ==
  IF ids = <<>> THEN <<>>
  ELSE LET id == Head(ids)
           co == new[id].company_id
       IN (IF StateChanged(old[id], new[id], vals)
             THEN <<[type |-> "project_state_changed", for_id |-> id, company_id |-> co]>>
             ELSE <<>>)
          \o (IF FinancialTouched(vals)
                THEN <<[type |-> "project_financial_updated", for_id |-> id,
                        company_id |-> co]>>
                ELSE <<>>)
          \o <<InvalidateCache(id, co)>>
          \o WriteSends(Tail(ids), old, new, vals)

\* CultivationProjectBusHandler.write on the recordset ids
project_write(table, ids, vals, env_company, failing, log) ==
  LET new == [i \in DOMAIN table |->
                IF i \in ids THEN HostWritten(table[i], vals) ELSE table[i]]
      out == SendAll(WriteSends(Ascending(ids), table, new, vals), env_company, failing, log)
  IN [table |-> new, log |-> out.log, raised |-> out.raised]

RECURSIVE UnlinkSends(_, _)
\* unlink, the loop over project_info
UnlinkSends(ids, table) ==
  IF ids = <<>> THEN <<>>
  ELSE LET id == Head(ids)
       IN <<[type |-> "project_deleted", for_id |-> id,
             company_id |-> table[id].company_id],
            InvalidateCache(id, table[id].company_id)>>
          \o UnlinkSends(Tail(ids), table)

\* CultivationProjectBusHandler.unlink on the recordset ids
project_unlink(table, ids, env_company, failing) ==
  LET out == SendAll(UnlinkSends(Ascending(ids), table), env_company, failing, <<>>)
  IN [table |-> [i \in (DOMAIN table) \ ids |-> table[i]],
      log |-> out.log, raised |-> out.raised]

(* DailyReportBusHandler, PurchaseOrderBusHandler, SaleOrderBusHandler *)
DocModels == {"farm.daily.report", "purchase.order", "sale.order"}

DocStates == {"draft", "confirmed"}

\* the message type each of the three write handlers sends
DocEvent(model) ==
  IF model = "farm.daily.report" THEN "daily_report_state_changed"
  ELSE IF model = "purchase.order" THEN "purchase_order_state_changed"
  ELSE "sale_order_state_changed"

RECURSIVE DocSends(_, _)
\* write, the loop over self
DocSends(model, recs) ==
  IF recs = <<>> THEN <<>>
  ELSE LET r == Head(recs)
       IN <<[type |-> DocEvent(model), for_id |-> r.id, company_id |-> r.company_id],
            InvalidateCache(r.id, r.company_id)>>
          \o DocSends(model, Tail(recs))

\* the three write handlers: notifications when 'state' is a key of vals
doc_write(model, recs, vals, env_company, failing) ==
  LET after == [i \in DOMAIN recs |-> HostWritten(recs[i], vals)]
      out == SendAll(IF "state" \in DOMAIN vals THEN DocSends(model, after) ELSE <<>>,
                     env_company, failing, <<>>)
  IN [after |-> after, log |-> out.log, raised |-> out.raised]

(* FarmDashboardData: the project operations *)
\* _calculate_state_progress
calculate_state_progress(state) ==
  CASE state = "draft" -> 0
    [] state = "planning" -> 10
    [] state = "preparation" -> 20
    [] state = "sowing" -> 35
    [] state = "growing" -> 60
    [] state = "harvest" -> 80
    [] state = "sales" -> 95
    [] state = "done" -> 100
    [] state = "cancel" -> 0
    [] OTHER -> 0

\* get_project_state_transitions (no other method calls it)
get_project_state_transitions ==
  [s \in ProjectStates |->
     CASE s = "draft" -> {"planning", "cancel"}
       [] s = "planning" -> {"preparation", "cancel"}
       [] s = "preparation" -> {"sowing", "cancel"}
       [] s = "sowing" -> {"growing", "cancel"}
       [] s = "growing" -> {"harvest", "cancel"}
       [] s = "harvest" -> {"sales", "done", "cancel"}
       [] s = "sales" -> {"done", "cancel"}
       [] OTHER -> {}]

\* update_data with the end date stamped on every status
StatusUpdateData_anyStatus(project, new_status, today) ==
  IF project.actual_end_date = NoDate
    THEN [state |-> new_status, actual_end_date |-> today]
    ELSE [state |-> new_status]

\* update_project_status, update_data: the state, and today as actual end date
\* when the new status is done and the project has none
StatusUpdateData(project, new_status, today) ==
  IF new_status = "done" /\ project.actual_end_date = NoDate
    THEN [state |-> new_status, actual_end_date |-> today]
    ELSE [state |-> new_status]

Failure(msg) == [success |-> FALSE, error |-> msg]

\* update_project_status; an exception of the write is caught and reported
update_project_status(table, log, project_id, new_status, today, env_company, failing) ==
  IF project_id \notin DOMAIN table
    THEN [table |-> table, log |-> log, result |-> Failure("Project not found")]
  ELSE IF new_status \notin ProjectStates
    THEN [table |-> table, log |-> log, result |-> Failure("Invalid status")]
  ELSE LET project == table[project_id]
           update_data == StatusUpdateData(project, new_status, today)
           w == project_write(table, {project_id}, update_data, env_company, failing, log)
       IN [table |-> w.table,
           log |-> w.log,
           result |-> IF w.raised THEN Failure("exception")
                      ELSE [success |-> TRUE,
                            old_status |-> project.state,
                            new_status |-> new_status,
                            progress |-> calculate_state_progress(new_status),
                            actual_end_date |->
                              DictGet(update_data, "actual_end_date", NoDate)]]

RECURSIVE UpdateEach(_, _, _, _, _, _, _)
\* update_multiple_project_status, the loop
UpdateEach(table, log, updates, today, env_company, failing, results) ==
  IF updates = <<>> THEN [table |-> table, log |-> log, results |-> results]
  ELSE LET u == Head(updates)
           r == update_project_status(table, log, u.project_id, u.new_status, today,
                                      env_company, failing)
       IN UpdateEach(r.table, r.log, Tail(updates), today, env_company, failing,
                     Append(results, [project_id |-> u.project_id, result |-> r.result]))

\* update_multiple_project_status counting every entry as updated
update_multiple_project_status_countAll(table, updates, today, env_company, failing) ==
  LET r == UpdateEach(table, <<>>, updates, today, env_company, failing, <<>>)
  IN [table |-> r.table,
      log |-> r.log,
      result |-> [success |-> TRUE,
                  results |-> r.results,
                  updated_count |-> Len(r.results)]]

\* update_multiple_project_status
update_multiple_project_status(table, updates, today, env_company, failing) ==
  LET r == UpdateEach(table, <<>>, updates, today, env_company, failing, <<>>)
  IN [table |-> r.table,
      log |-> r.log,
      result |-> [success |-> TRUE,
                  results |-> r.results,
                  updated_count |->
                    Cardinality({i \in DOMAIN r.results : r.results[i].result.success})]]

\* update_project: data is written as given
update_project(table, project_id, data, refs_ok, env_company, failing) ==
  IF project_id \notin DOMAIN table
    THEN [table |-> table, log |-> <<>>, result |-> Failure("Project not found")]
  ELSE IF ~refs_ok
    THEN [table |-> table, log |-> <<>>, result |-> Failure("Selected record does not exist")]
  ELSE LET w == project_write(table, {project_id}, data, env_company, failing, <<>>)
       IN [table |-> w.table,
           log |-> w.log,
           result |-> IF w.raised THEN Failure("exception")
                      ELSE [success |-> TRUE, id |-> project_id]]

\* create_project: data.complete says the seven required keys are present,
\* data.refs_ok that farm, field, crop and BOM exist and belong together; of
\* data.vals only state reaches create_data; the host computes the budget
create_project(table, data, budget, env_company, failing) ==
  IF ~data.complete
    THEN [table |-> table, log |-> <<>>, result |-> Failure("required field missing")]
  ELSE IF ~data.refs_ok
    THEN [table |-> table, log |-> <<>>, result |-> Failure("Selected record does not exist")]
  ELSE LET create_data == [state |-> DictGet(data.vals, "state", "draft"),
                           budget |-> budget]
           c == project_create(table, <<create_data>>, env_company, failing)
       IN [table |-> c.table,
           log |-> c.log,
           result |-> IF c.raised THEN Failure("exception")
                      ELSE [success |-> TRUE, id |-> c.ids[1]]]

(* ------------------------ project and bus inputs ----------------------- *)
DomainEvents ==
  {"project_created", "project_state_changed", "project_financial_updated",
   "project_deleted"} \cup {DocEvent(m) : m \in DocModels}

\* the message types the bus refuses during one operation
FailingInputs ==
  {{}, {"invalidate_cache"}, DomainEvents, DomainEvents \cup {"invalidate_cache"}}

Optional(key, values) == {EmptyDict} \cup {[k \in {key} |-> v] : v \in values}

Dicts2(A, B) == {DictUpdate(a, b) : a \in A, b \in B}

SeqsUpTo(S, n) == UNION {[1..k -> S] : k \in 1..n}

\* values of the host's forms: a company or none on create; on write nothing,
\* or state and budget together, or one of the two
BusCreateVals == Optional("company_id", Companies)

BusWriteVals ==
  {EmptyDict, [state |-> "growing", budget |-> 1], [state |-> "draft", budget |-> 0]}

ChangeWriteVals ==
  Dicts2(Optional("state", {"draft", "growing"}), Optional("budget", Amounts))

DocRecordsets ==
  {<<[id |-> 1, state |-> s, company_id |-> c]>> : s \in DocStates, c \in Companies}
  \cup {<<[id |-> 1, state |-> "draft", company_id |-> c],
          [id |-> 2, state |-> "confirmed", company_id |-> d]>> :
          c \in Companies, d \in Companies}

DocWriteVals == Optional("state", DocStates)

(* -------------------- the host's operations (ORM level) ---------------- *)
\* farm.cultivation.project.create(vals_list)
ProjectCreate(vals_list, env_company, failing) ==
  /\ Len(vals_list) <= Cardinality(ProjectIds \ DOMAIN projects)
  /\ LET c == project_create(projects, vals_list, env_company, failing)
     IN /\ bus' = c.log
        /\ projects' = IF c.raised THEN projects ELSE c.table
        /\ resp' = [op |-> "project.create",
                    status |-> IF c.raised THEN "raised" ELSE "ok",
                    ids |-> Range(c.ids), vals |-> EmptyDict]
  /\ UNCHANGED <<accessVars, crops, filters, dashboards>>

\* farm.cultivation.project.write(vals) on a recordset
ProjectWrite(ids, vals, env_company, failing) ==
  /\ ids # {}
  /\ ids \subseteq DOMAIN projects
  /\ LET w == project_write(projects, ids, vals, env_company, failing, <<>>)
     IN /\ bus' = w.log
        /\ projects' = IF w.raised THEN projects ELSE w.table
        /\ resp' = [op |-> "project.write",
                    status |-> IF w.raised THEN "raised" ELSE "ok",
                    ids |-> ids, vals |-> vals]
  /\ UNCHANGED <<accessVars, crops, filters, dashboards>>

\* farm.cultivation.project.unlink() on a recordset
ProjectUnlink(ids, env_company, failing) ==
  /\ ids # {}
  /\ ids \subseteq DOMAIN projects
  /\ LET u == project_unlink(projects, ids, env_company, failing)
     IN /\ bus' = u.log
        /\ projects' = IF u.raised THEN projects ELSE u.table
        /\ resp' = [op |-> "project.unlink",
                    status |-> IF u.raised THEN "raised" ELSE "ok",
                    ids |-> ids, vals |-> EmptyDict]
  /\ UNCHANGED <<accessVars, crops, filters, dashboards>>

\* write(vals) on a recordset of daily reports, purchase orders or sale orders;
\* the rows belong to the host and are given with the call
DocWrite(model, recs, vals, env_company, failing) ==
  /\ LET w == doc_write(model, recs, vals, env_company, failing)
     IN /\ bus' = w.log
        /\ resp' = [op |-> "doc.write",
                    status |-> IF w.raised THEN "raised" ELSE "ok",
                    model |-> model, before |-> recs,
                    after |-> IF w.raised THEN recs ELSE w.after]
  /\ UNCHANGED <<accessVars, projects, crops, filters, dashboards>>

NextBus ==
  \/ \E vl \in SeqsUpTo(BusCreateVals, 2), e \in Companies, f \in FailingInputs :
       ProjectCreate(vl, e, f)
  \/ \E ids \in SUBSET ProjectIds, v \in BusWriteVals, f \in FailingInputs :
       ProjectWrite(ids, v, 1, f)
  \/ \E ids \in SUBSET ProjectIds, f \in FailingInputs : ProjectUnlink(ids, 1, f)
  \/ \E m \in DocModels, f \in FailingInputs :
       DocWrite(m, <<[id |-> 1, state |-> "draft", company_id |-> 2]>>,
                [state |-> "confirmed"], 1, f)

\* the host's creates, writes and unlinks of cultivation projects and a
\* confirming write of each watched document, the bus refusing any of the
\* messages
SpecBus == Init /\ [][NextBus]_vars

NextChange ==
  \/ ProjectCreate(<<EmptyDict>>, 1, {})
  \/ \E ids \in SUBSET ProjectIds, v \in ChangeWriteVals : ProjectWrite(ids, v, 1, {})
  \/ \E m \in DocModels, recs \in DocRecordsets, v \in DocWriteVals :
       DocWrite(m, recs, v, 1, {})

\* writes on projects, daily reports, purchase orders and sale orders that set
\* a watched field to a new value or to the value it has
SpecChange == Init /\ [][NextChange]_vars

(* ------------- the project operations of farm.dashboard.data ----------- *)
MaxUpdates == 2

\* statuses a client sends: three of valid_states and one outside them
StatusInputs == {"draft", "harvest", "done", "archived"}

\* the elements of project_updates: harvest or done for the first project, done
\* for the second
UpdateInputs ==
  {[project_id |-> 1, new_status |-> "harvest"],
   [project_id |-> 1, new_status |-> "done"],
   [project_id |-> 2, new_status |-> "done"]}

UpdateDataInputs ==
  Dicts2(Optional("state", {"done"}), Optional("actual_end_date", Dates))

CreateDataInputs ==
  {[complete |-> FALSE, refs_ok |-> TRUE, vals |-> EmptyDict],
   [complete |-> TRUE, refs_ok |-> FALSE, vals |-> EmptyDict]}
  \cup {[complete |-> TRUE, refs_ok |-> TRUE, vals |-> v] :
          v \in Optional("state", {"harvest"})}

\* create_project(project_data); the budget is the one the host computes
CreateProject(data) ==
  /\ ProjectIds \ DOMAIN projects # {}
  /\ LET r == create_project(projects, data, 1, 1, {})
     IN /\ projects' = r.table
        /\ bus' = r.log
        /\ resp' = [op |-> "create_project", result |-> r.result]
  /\ UNCHANGED <<accessVars, crops, filters, dashboards>>

\* update_project(project_id, project_data)
UpdateProject(project_id, data, refs_ok) ==
  /\ LET r == update_project(projects, project_id, data, refs_ok, 1, {})
     IN /\ projects' = r.table
        /\ bus' = r.log
        /\ resp' = [op |-> "update_project", project_id |-> project_id,
                    data |-> data, result |-> r.result]
  /\ UNCHANGED <<accessVars, crops, filters, dashboards>>

\* update_project_status(project_id, new_status)
UpdateProjectStatus(project_id, new_status, today) ==
  /\ LET r == update_project_status(projects, <<>>, project_id, new_status, today, 1, {})
     IN /\ projects' = r.table
        /\ bus' = r.log
        /\ resp' = [op |-> "update_project_status", project_id |-> project_id,
                    new_status |-> new_status, result |-> r.result]
  /\ UNCHANGED <<accessVars, crops, filters, dashboards>>

\* update_multiple_project_status(updates)
UpdateMultipleProjectStatus(updates, today) ==
  /\ LET r == update_multiple_project_status(projects, updates, today, 1, {})
     IN /\ projects' = r.table
        /\ bus' = r.log
        /\ resp' = [op |-> "update_multiple_project_status", updates |-> updates,
                    result |-> r.result]
  /\ UNCHANGED <<accessVars, crops, filters, dashboards>>

NextProject ==
  \/ \E d \in CreateDataInputs : CreateProject(d)
  \/ \E id \in ProjectIds, d \in UpdateDataInputs, ok \in BOOLEAN : UpdateProject(id, d, ok)
  \/ \E id \in ProjectIds, s \in StatusInputs, t \in Dates : UpdateProjectStatus(id, s, t)
  \/ \E us \in SeqsUpTo(UpdateInputs, MaxUpdates), t \in Dates :
       UpdateMultipleProjectStatus(us, t)

\* the four project operations a dashboard client calls
SpecProject == Init /\ [][NextProject]_vars

(* ------------------ the tab handlers of get_dashboard_data -------------- *)
\* where a request goes wrong: nowhere; the filters argument is a truthy value
\* without .get, so the first filters.get raises; a query of the ORM raises;
\* the aggregation inside _calculate_real_kpis raises
Faults == {"none", "filters", "query", "kpis"}

\* a fault that raises at the first statement of a handler that reads filters or
\* queries the ORM
Raising(fault) == fault \in {"filters", "query"}

\* the data_source of a payload that has no such key
NoDataSource == "absent"

\* an exception leaving a handler
Raised == [kind |-> "raise"]

\* _get_active_project_states
get_active_project_states == {"preparation", "sowing", "growing", "harvest", "sales"}

\* _is_project_active
is_project_active(state) == state \in get_active_project_states

RECURSIVE SumOf(_, _, _)
\* sum(p.f for p in projects if p.f) or 0.0
SumOf(table, ids, f) ==
  IF ids = {} THEN 0
  ELSE LET i == MinOf(ids) IN table[i][f] + SumOf(table, ids \ {i}, f)

\* n / d rounded to the nearest integer, a tie to the even one (d > 0)
RoundDiv(n, d) ==
  LET q == n \div d
      r == n % d
  IN IF 2 * r < d THEN q
     ELSE IF 2 * r > d THEN q + 1
     ELSE IF q % 2 = 0 THEN q ELSE q + 1

\* round((n / d) * 100, 2), carried in hundredths of a percent
Percent(n, d) == RoundDiv(n * 10000, d)

\* _get_zero_kpis (amounts in currency units, percentages in hundredths)
get_zero_kpis ==
  [active_projects |-> 0, total_projects |-> 0, completed_projects |-> 0,
   total_budget |-> 0, total_actual_cost |-> 0, total_revenue |-> 0,
   total_profit |-> 0, budget_variance |-> 0, profit_margin |-> 0,
   completion_rate |-> 0]

\* total_profit = total_revenue - total_actual_cost, with the cost left out
total_profit_grossRevenue(total_revenue, total_actual_cost) == total_revenue

\* total_profit = total_revenue - total_actual_cost
total_profit(total_revenue, total_actual_cost) == total_revenue - total_actual_cost

\* the roles given budget_variance and profit_margin
FinancialKpiRoles == {"owner", "manager", "demo_user"}

\* _calculate_real_kpis(projects, user_role); its own except clause returns the
\* zero KPIs
calculate_real_kpis(table, user_role, fault) ==
  IF fault = "kpis" \/ DOMAIN table = {} THEN get_zero_kpis
  ELSE LET ids == DOMAIN table
           active == {i \in ids : table[i].state \in get_active_project_states}
           completed == {i \in ids : table[i].state = "done"}
           total_budget == SumOf(table, ids, "budget")
           total_actual_cost == SumOf(table, ids, "actual_cost")
           total_revenue == SumOf(table, ids, "revenue")
           profit == total_profit(total_revenue, total_actual_cost)
           kpis == [active_projects |-> Cardinality(active),
                    total_projects |-> Cardinality(ids),
                    completed_projects |-> Cardinality(completed),
                    total_budget |-> total_budget,
                    total_actual_cost |-> total_actual_cost,
                    total_revenue |-> total_revenue,
                    total_profit |-> profit,
                    completion_rate |-> Percent(Cardinality(completed), Cardinality(ids))]
       IN IF user_role \in FinancialKpiRoles
            THEN DictUpdate(kpis,
                   [budget_variance |-> IF total_budget > 0
                                          THEN Percent(total_actual_cost - total_budget,
                                                       total_budget)
                                          ELSE 0,
                    profit_margin |-> IF total_revenue > 0
                                        THEN Percent(profit, total_revenue)
                                        ELSE 0])
            ELSE kpis

\* _get_demo_overview_data, the definition in force (the last of the class)
get_demo_overview_data ==
  [kind |-> "data", handler |-> "overview", path |-> "demo",
   kpis |-> [active_projects |-> 12, total_projects |-> 18, completed_projects |-> 6,
             total_budget |-> 125000, total_actual_cost |-> 96500,
             total_revenue |-> 125000, total_profit |-> 28500,
             budget_variance |-> -2280, profit_margin |-> 2280,
             completion_rate |-> 3330],
   user_role |-> "demo_user", data_source |-> "demo"]

\* _get_overview_data: the whole body is inside try; an empty search result is
\* only logged
get_overview_data(table, user_role, fault) ==
  IF Raising(fault) THEN get_demo_overview_data
  ELSE [kind |-> "data", handler |-> "overview", path |-> "live",
        kpis |-> calculate_real_kpis(table, user_role, fault),
        user_role |-> user_role, data_source |-> "live"]

\* _calculate_project_progress, the definition in force: a table of its own,
\* and for a growing project within its planned period the share of elapsed days
calculate_project_progress(project, today) ==
  LET stage_progress ==
        [draft |-> 5, planning |-> 15, growing |-> 60, harvest |-> 85, sales |-> 95,
         completed |-> 100, cancelled |-> 0]
      base_progress == DictGet(stage_progress, project.state, 0)
      total_days == project.planned_end_date - project.start_date
      elapsed_days == today - project.start_date
      adjusted ==
        IF /\ project.state = "growing"
           /\ project.start_date # NoDate
           /\ project.planned_end_date # NoDate
           /\ project.start_date <= today
           /\ today <= project.planned_end_date
           /\ total_days > 0
          THEN 20 + ((elapsed_days * 40) \div total_days)
          ELSE base_progress
  IN IF adjusted > 100 THEN 100 ELSE IF adjusted < 0 THEN 0 ELSE adjusted

\* _is_project_overdue, the definition in force
is_project_overdue(project, today) ==
  IF project.planned_end_date = NoDate THEN FALSE
  ELSE IF project.state = "done" /\ project.actual_end_date # NoDate
    THEN project.actual_end_date > project.planned_end_date
  ELSE IF project.state \notin {"done", "cancel"}
    THEN today > project.planned_end_date
  ELSE FALSE

\* the host's computed field profit of a project
ProjectProfit(project) == project.revenue - project.actual_cost

\* the entry of one project in projects_by_stage and in get_project_details
ProjectData(project, today) ==
  [state |-> project.state,
   profit |-> ProjectProfit(project),
   progress_percentage |-> calculate_project_progress(project, today),
   is_overdue |-> is_project_overdue(project, today)]

\* _get_demo_projects_data: its stats
get_demo_projects_data ==
  [kind |-> "data", handler |-> "projects", path |-> "demo",
   stats |-> [total_projects |-> 8, active_projects |-> 5, total_budget |-> 85000],
   data_source |-> "demo"]

\* _get_projects_data: the whole body is inside try
get_projects_data(table, user_role, fault, today) ==
  IF Raising(fault) THEN get_demo_projects_data
  ELSE LET ids == DOMAIN table
       IN [kind |-> "data", handler |-> "projects", path |-> "live",
           stats |-> [total_projects |-> Cardinality(ids),
                      active_projects |->
                        Cardinality({i \in ids :
                                       table[i].state \in {"growing", "harvest", "planning"}}),
                      total_budget |-> SumOf(table, ids, "budget")],
           projects |-> [i \in ids |-> ProjectData(table[i], today)],
           user_role |-> user_role, data_source |-> "live"]

\* the payload of a handler that sets no data_source key
Unmarked(handler, path) ==
  [kind |-> "data", handler |-> handler, path |-> path, data_source |-> NoDataSource]

\* _get_crops_data: inside try; with no active crop the append after the loop
\* raises NameError, which the except clause turns into the demo payload
get_crops_data(fault, rows) ==
  IF Raising(fault) \/ ~rows THEN Unmarked("crops", "demo") ELSE Unmarked("crops", "live")

\* _get_financials_data: inside try
get_financials_data(fault) ==
  IF Raising(fault) THEN Unmarked("financials", "demo") ELSE Unmarked("financials", "live")

\* _get_sales_data: inside try; an empty sale.order table proceeds to the live
\* structure
get_sales_data(fault) ==
  IF Raising(fault) THEN Unmarked("sales", "demo") ELSE Unmarked("sales", "live")

\* _get_purchases_data: the two filters.get of the date range precede the try;
\* live only when the summary counts an order
get_purchases_data(fault, rows) ==
  IF fault = "filters" THEN Raised
  ELSE IF fault = "query" \/ ~rows THEN Unmarked("purchases", "demo")
  ELSE Unmarked("purchases", "live")

\* _get_inventory_data: as purchases, live only when the summary counts a product
get_inventory_data(fault, rows) ==
  IF fault = "filters" THEN Raised
  ELSE IF fault = "query" \/ ~rows THEN Unmarked("inventory", "demo")
  ELSE Unmarked("inventory", "live")

\* _get_reports_data: no try, no demo payload
get_reports_data(fault) ==
  IF Raising(fault) THEN Raised ELSE Unmarked("reports", "live")

\* method_map[tab](filters, user_role)
RunHandler(handler, table, user_role, fault, rows, today) ==
  CASE handler = "overview" -> get_overview_data(table, user_role, fault)
    [] handler = "projects" -> get_projects_data(table, user_role, fault, today)
    [] handler = "crops" -> get_crops_data(fault, rows)
    [] handler = "financials" -> get_financials_data(fault)
    [] handler = "sales" -> get_sales_data(fault)
    [] handler = "purchases" -> get_purchases_data(fault, rows)
    [] handler = "inventory" -> get_inventory_data(fault, rows)
    [] handler = "reports" -> get_reports_data(fault)

\* the error payload of get_dashboard_data's except clause
ErrorPayload(handler) ==
  [kind |-> "error", handler |-> handler, path |-> "error", data_source |-> NoDataSource]

\* FarmDashboardData.get_dashboard_data(filters, tab) with the handler it runs:
\* an exception that leaves the handler becomes {'error': str(e)}
TabPayload(gs, tab, table, fault, rows, today) ==
  LET d == FarmDashboardData_get_dashboard_data(gs, tab)
  IN IF d.kind # "data" THEN ErrorPayload(d.handler)
     ELSE LET r == RunHandler(d.handler, table, d.user_role, fault, rows, today)
          IN IF r = Raised THEN ErrorPayload(d.handler) ELSE r

\* the RPC on farm.dashboard.data, answered with the payload of its handler
GetTabData(u, tab, fault, rows, today) ==
  /\ ~InFlight(u)
  /\ resp' = [op |-> "tab_data", user |-> u, tab |-> tab, fault |-> fault,
              rows |-> rows, today |-> today,
              result |-> TabPayload(groups[u], tab, projects, fault, rows, today)]
  /\ UNCHANGED <<groups, access, calls, projectVars>>

\* the groups _get_user_role reads
DataRoleGroups == {GroupFarmOwner, GroupFarmManager, GroupFarmAccountant}

\* the eight tabs under every fault, over changing roles and a growing
\* project table
NextTabs ==
  \/ \E u \in Users, g \in {GroupFarmOwner, GroupFarmAccountant} : SetGroup(u, g)
  \/ \E d \in CreateDataInputs : CreateProject(d)
  \/ \E u \in Users, tab \in TabInputs, fault \in Faults, rows \in BOOLEAN, t \in Dates :
       GetTabData(u, tab, fault, rows, t)

SpecTabs == Init /\ [][NextTabs]_vars

(* --------------- KPIs, progress and overdue over stored projects --------- *)
\* a stored project of company 1
Row(state, start_date, planned_end_date, actual_end_date, budget, actual_cost, revenue) ==
  [state |-> state, start_date |-> start_date, planned_end_date |-> planned_end_date,
   actual_end_date |-> actual_end_date, company_id |-> 1,
   budget |-> budget, actual_cost |-> actual_cost, revenue |-> revenue]

\* projects as the host stores them: every state, with and without dates, on
\* time and late, with zero and non-zero budget and revenue
KpiProjects ==
  {Row("draft", NoDate, NoDate, NoDate, 0, 0, 0),
   Row("planning", 1, 1, NoDate, 3, 1, 7),
   Row("preparation", 1, 3, NoDate, 0, 1, 7),
   Row("sowing", 1, 3, NoDate, 3, 1, 0),
   Row("growing", 1, 3, NoDate, 1000, 1200, 0),
   Row("growing", NoDate, NoDate, NoDate, 0, 0, 0),
   Row("harvest", 1, 1, NoDate, 3, 1, 7),
   Row("sales", 1, 3, NoDate, 1000, 1200, 7),
   Row("done", 1, 1, 2, 1000, 1200, 7),
   Row("done", 1, 3, 2, 3, 1, 7),
   Row("cancel", 1, 1, NoDate, 0, 0, 0)}

\* the project tables of one to MaxProjects such projects, and the empty one
KpiTables == {EmptyDict} \cup UNION {[1..n -> KpiProjects] : n \in 1..MaxProjects}

\* the dates a request is made on
KpiDates == {2}

\* get_project_details(project_id): 'progress_percentage', 'is_overdue' and
\* 'profit' of the project, or 'Project not found'
\* the error payload {'error': ...} has no 'success' key: the absent key is
\* written as success FALSE
get_project_details(table, project_id, today) ==
  IF project_id \notin DOMAIN table THEN Failure("Project not found")
  ELSE [success |-> TRUE, project |-> ProjectData(table[project_id], today)]

\* get_project_analytics(filters): the counts
get_project_analytics(table, today) ==
  LET ids == DOMAIN table
  IN [total_projects |-> Cardinality(ids),
      active_projects |-> Cardinality({i \in ids : is_project_active(table[i].state)}),
      completed_projects |-> Cardinality({i \in ids : table[i].state = "done"}),
      overdue_projects |-> Cardinality({i \in ids : is_project_overdue(table[i], today)}),
      cancelled_projects |-> Cardinality({i \in ids : table[i].state = "cancel"}),
      progress |-> [i \in ids |-> calculate_state_progress(table[i].state)]]

\* FarmDashboardKPI.calculate_overview_kpis: totals of the read_group by state
calculate_overview_kpis(table) ==
  LET ids == DOMAIN table
      total_revenue == SumOf(table, ids, "revenue")
      total_actual_cost == SumOf(table, ids, "actual_cost")
  IN [total_projects |-> Cardinality(ids),
      active_projects |->
        Cardinality({i \in ids : table[i].state \in get_active_project_states}),
      total_budget |-> SumOf(table, ids, "budget"),
      total_actual_cost |-> total_actual_cost,
      total_revenue |-> total_revenue,
      total_profit |-> total_profit(total_revenue, total_actual_cost)]

\* FarmDashboardKPI.calculate_projects_kpis: the counts
calculate_projects_kpis(table, today) ==
  LET ids == DOMAIN table
  IN [total_projects |-> Cardinality(ids),
      active_projects |-> Cardinality({i \in ids : is_project_active(table[i].state)}),
      completed_projects |-> Cardinality({i \in ids : table[i].state = "done"}),
      overdue_projects |->
        Cardinality({i \in ids : /\ table[i].planned_end_date # NoDate
                                  /\ table[i].planned_end_date < today
                                  /\ table[i].state \notin {"done", "cancel"}})]

RECURSIVE SumProfit(_, _)
\* sum(projects.mapped('profit'))
SumProfit(table, ids) ==
  IF ids = {} THEN 0
  ELSE LET i == MinOf(ids) IN ProjectProfit(table[i]) + SumProfit(table, ids \ {i})

\* FarmDashboardKPI.calculate_financial_kpis: the totals (the three unrounded
\* ratios are left out)
calculate_financial_kpis(table) ==
  LET ids == DOMAIN table
  IN [total_budget |-> SumOf(table, ids, "budget"),
      total_actual_cost |-> SumOf(table, ids, "actual_cost"),
      total_revenue |-> SumOf(table, ids, "revenue"),
      total_profit |-> SumProfit(table, ids)]

\* the database a dashboard is opened on
InitKpi ==
  /\ groups = [u \in Users |-> {}]
  /\ access = EmptyDict
  /\ calls = [c \in Callers |-> Idle]
  /\ projects \in KpiTables
  /\ bus = <<>>
  /\ crops = {}
  /\ filters = EmptyDict
  /\ dashboards = EmptyDict
  /\ resp = NoResponse

GetProjectDetails(project_id, today) ==
  /\ resp' = [op |-> "get_project_details", project_id |-> project_id, today |-> today,
              result |-> get_project_details(projects, project_id, today)]
  /\ UNCHANGED <<groups, access, calls, projectVars>>

GetProjectAnalytics(today) ==
  /\ resp' = [op |-> "get_project_analytics", today |-> today,
              result |-> get_project_analytics(projects, today)]
  /\ UNCHANGED <<groups, access, calls, projectVars>>

CalculateOverviewKpis ==
  /\ resp' = [op |-> "calculate_overview_kpis", result |-> calculate_overview_kpis(projects)]
  /\ UNCHANGED <<groups, access, calls, projectVars>>

CalculateProjectsKpis(today) ==
  /\ resp' = [op |-> "calculate_projects_kpis", today |-> today,
              result |-> calculate_projects_kpis(projects, today)]
  /\ UNCHANGED <<groups, access, calls, projectVars>>

CalculateFinancialKpis ==
  /\ resp' = [op |-> "calculate_financial_kpis",
              result |-> calculate_financial_kpis(projects)]
  /\ UNCHANGED <<groups, access, calls, projectVars>>

\* the read operations over a stored project table, for every role
NextKpi ==
  \/ \E g \in DataRoleGroups : SetGroup(1, g)
  \/ \E tab \in {"overview", "projects"}, fault \in {"none", "query", "kpis"},
        t \in KpiDates : GetTabData(1, tab, fault, TRUE, t)
  \/ \E id \in ProjectIds, t \in KpiDates : GetProjectDetails(id, t)
  \/ \E t \in KpiDates : GetProjectAnalytics(t)
  \/ CalculateOverviewKpis
  \/ \E t \in KpiDates : CalculateProjectsKpis(t)
  \/ CalculateFinancialKpis

SpecKpi == InitKpi /\ [][NextKpi]_vars

(* ------------------ crops and the sample projects ---------------------- *)
CropNames == {"Wheat", "Corn"}

NoName == ""

\* crop_data: a name or none, a growing_cycle above zero or not
CropDataInputs == [name : CropNames \cup {NoName}, cycle_ok : BOOLEAN]

\* create_crop that replaces the crop table by the new crop
create_crop_replacing(table, crop_data, raises) ==
  IF crop_data.name = NoName THEN [table |-> table, result |-> Failure("Crop name is required")]
  ELSE [table |-> {crop_data.name}, result |-> [success |-> TRUE, crop |-> crop_data.name]]

\* create_crop(crop_data): the three refusals, then farm.crop.create; an
\* exception of the create is returned as a failure
create_crop(table, crop_data, raises) ==
  IF crop_data.name = NoName THEN [table |-> table, result |-> Failure("Crop name is required")]
  ELSE IF ~crop_data.cycle_ok
    THEN [table |-> table, result |-> Failure("Growing cycle must be greater than 0")]
  ELSE IF crop_data.name \in table
    THEN [table |-> table, result |-> Failure("already exists")]
  ELSE IF raises THEN [table |-> table, result |-> Failure("exception")]
  ELSE [table |-> table \cup {crop_data.name},
        result |-> [success |-> TRUE, crop |-> crop_data.name]]

CreateCrop(crop_data, raises) ==
  /\ LET r == create_crop(crops, crop_data, raises)
     IN /\ crops' = r.table
        /\ resp' = [op |-> "create_crop", crop_data |-> crop_data, result |-> r.result]
  /\ UNCHANGED <<accessVars, projects, bus, filters, dashboards>>

\* projects_data of create_sample_cultivation_projects, on day today
SampleProjects(today) ==
  <<[start_date |-> today - 1, planned_end_date |-> today + 1, state |-> "growing"],
    [start_date |-> today - 1, planned_end_date |-> today + 1, state |-> "harvest"]>>

\* create_sample_cultivation_projects: refused when a project exists; a crop
\* Wheat when there is no crop, then one create per sample project
create_sample_cultivation_projects(table, crop_table, today, env_company) ==
  IF DOMAIN table # {}
    THEN [table |-> table, crops |-> crop_table, log |-> <<>>,
          result |-> [success |-> FALSE]]
  ELSE LET c1 == project_create(table, <<SampleProjects(today)[1]>>, env_company, {})
           c2 == project_create(c1.table, <<SampleProjects(today)[2]>>, env_company, {})
       IN [table |-> c2.table,
           crops |-> IF crop_table = {} THEN {"Wheat"} ELSE crop_table,
           log |-> c1.log \o c2.log,
           result |-> [success |-> TRUE]]

CreateSampleCultivationProjects(today) ==
  /\ LET r == create_sample_cultivation_projects(projects, crops, today, 1)
     IN /\ projects' = r.table
        /\ crops' = r.crops
        /\ bus' = r.log
        /\ resp' = [op |-> "create_sample_cultivation_projects", result |-> r.result]
  /\ UNCHANGED <<accessVars, filters, dashboards>>

\* the operations a dashboard client calls: the ones that write and the ones
\* that read
NextFrame ==
  \/ \E d \in CreateDataInputs : CreateProject(d)
  \/ \E id \in ProjectIds, d \in UpdateDataInputs : UpdateProject(id, d, TRUE)
  \/ \E id \in ProjectIds, s \in {"harvest", "archived"}, t \in Dates :
       UpdateProjectStatus(id, s, t)
  \/ \E us \in SeqsUpTo(UpdateInputs, 1), t \in Dates : UpdateMultipleProjectStatus(us, t)
  \/ \E d \in CropDataInputs, raises \in BOOLEAN : CreateCrop(d, raises)
  \/ \E t \in KpiDates : CreateSampleCultivationProjects(t)
  \/ \E tab \in {"overview", "projects"}, t \in KpiDates :
       GetTabData(1, tab, "none", TRUE, t)
  \/ \E id \in ProjectIds, t \in KpiDates : GetProjectDetails(id, t)

SpecFrame == Init /\ [][NextFrame]_vars

(* ----------------------------- _build_domain ---------------------------- *)
\* a filter value sent for farm_id, crop_id, budget_min or budget_max: whether
\* Python takes it as true, whether int() / float() accepts it, and the number
FilterValue(truthy, parsable, num) == [truthy |-> truthy, parsable |-> parsable, num |-> num]

\* the number n; the text "0"; the number 0; a text that is no number
Number(n) == FilterValue(n # 0, TRUE, n)

TextZero == FilterValue(TRUE, TRUE, 0)

TextInvalid == FilterValue(TRUE, FALSE, 0)

\* filters.get(key) and filters[key]
Supplied(f, key) ==
  key \in DOMAIN f /\
    CASE key \in {"date_from", "date_to"} -> f[key] # NoDate
      [] key = "farm_ids" -> f[key] # {}
      [] key \in {"stage", "search"} -> f[key] # ""
      [] OTHER -> f[key].truthy

Leaf(field, op, value) == [kind |-> "leaf", field |-> field, op |-> op, value |-> value]

OrOperator == [kind |-> "or"]

\* the farm_id and crop_id blocks: int() inside try, ValueError logged, a zero
\* adds nothing
IdClause(f, key) ==
  IF Supplied(f, key) /\ f[key].parsable /\ f[key].num # 0
    THEN <<Leaf(key, "=", f[key].num)>>
    ELSE <<>>

\* the farm block with the singular key winning over the list
FarmClause_singularFirst(f) ==
  IF Supplied(f, "farm_id") THEN IdClause(f, "farm_id")
  ELSE IF Supplied(f, "farm_ids") THEN <<Leaf("farm_id", "in", f.farm_ids)>>
  ELSE <<>>

\* the farm block: farm_ids, elif farm_id
FarmClause(f) ==
  IF Supplied(f, "farm_ids") THEN <<Leaf("farm_id", "in", f.farm_ids)>>
  ELSE IF Supplied(f, "farm_id") THEN IdClause(f, "farm_id")
  ELSE <<>>

\* whether float(filters['budget_min']) or float(filters['budget_max']) raises
BudgetRaises(f) ==
  \E key \in {"budget_min", "budget_max"} : Supplied(f, key) /\ ~f[key].parsable

\* _build_domain(filters): the clauses in the order they are appended, or the
\* ValueError of float()
build_domain(f) ==
  IF BudgetRaises(f) THEN [raised |-> TRUE, domain |-> <<>>]
  ELSE [raised |-> FALSE,
        domain |->
          (IF Supplied(f, "date_from") THEN <<Leaf("start_date", ">=", f.date_from)>> ELSE <<>>)
          \o (IF Supplied(f, "date_to") THEN <<Leaf("start_date", "<=", f.date_to)>> ELSE <<>>)
          \o FarmClause(f)
          \o IdClause(f, "crop_id")
          \o (IF Supplied(f, "stage") THEN <<Leaf("state", "=", f.stage)>> ELSE <<>>)
          \o (IF Supplied(f, "search")
                THEN <<OrOperator, Leaf("name", "ilike", f.search),
                       Leaf("code", "ilike", f.search)>>
                ELSE <<>>)
          \o (IF Supplied(f, "budget_min") THEN <<Leaf("budget", ">=", f.budget_min.num)>>
              ELSE <<>>)
          \o (IF Supplied(f, "budget_max") THEN <<Leaf("budget", "<=", f.budget_max.num)>>
              ELSE <<>>)]

\* one leaf of a domain on one record, as the ORM evaluates it; a name and a
\* code are carried as the set of search terms they contain, an unset date
\* satisfies no comparison
LeafHolds(leaf, rec) ==
  CASE leaf.op = "=" -> rec[leaf.field] = leaf.value
    [] leaf.op = "in" -> rec[leaf.field] \in leaf.value
    [] leaf.op = "ilike" -> leaf.value \in rec[leaf.field]
    [] leaf.op = ">=" ->
         (leaf.field = "start_date" => rec.start_date # NoDate)
         /\ rec[leaf.field] >= leaf.value
    [] leaf.op = "<=" ->
         (leaf.field = "start_date" => rec.start_date # NoDate)
         /\ rec[leaf.field] <= leaf.value

RECURSIVE TermHolds(_, _, _)
\* the term that starts at position i of a domain in prefix notation, and the
\* position after it
TermHolds(domain, i, rec) ==
  IF domain[i].kind = "or"
    THEN LET a == TermHolds(domain, i + 1, rec)
             b == TermHolds(domain, a.next, rec)
         IN [val |-> a.val \/ b.val, next |-> b.next]
    ELSE [val |-> LeafHolds(domain[i], rec), next |-> i + 1]

RECURSIVE DomainHolds(_, _, _)
\* the terms of a domain are conjoined
DomainHolds(domain, i, rec) ==
  IF i > Len(domain) THEN TRUE
  ELSE LET t == TermHolds(domain, i, rec)
       IN t.val /\ DomainHolds(domain, t.next, rec)

\* self.env['farm.cultivation.project'].search(domain)
Search(table, domain) ==
  LET ids == {i \in DOMAIN table : DomainHolds(domain, 1, table[i])}
  IN [i \in ids |-> table[i]]

\* stored projects with the fields the filters look at
FilterRow(row, farm_id, crop_id, name, code) ==
  DictUpdate(row, [farm_id |-> farm_id, crop_id |-> crop_id, name |-> name, code |-> code])

FilterProjects ==
  {FilterRow(Row("growing", 1, 3, NoDate, 3, 1, 7), 1, 1, {"wheat"}, {"w1"}),
   FilterRow(Row("growing", 3, 3, NoDate, 5, 1, 0), 2, 1, {"corn"}, {"wheat"}),
   FilterRow(Row("draft", NoDate, NoDate, NoDate, 0, 0, 0), 1, 2, {"rice"}, {"r1"})}

FilterTables == UNION {[1..n -> FilterProjects] : n \in 1..MaxProjects}

\* the filter payloads of a client: the date, farm, crop, stage, search and
\* budget keys, each absent or with one of its values
FarmFilters ==
  {EmptyDict, [farm_ids |-> {1}], [farm_id |-> Number(1)], [farm_id |-> TextInvalid],
   [farm_id |-> TextZero], [farm_ids |-> {1}, farm_id |-> Number(2)],
   [farm_ids |-> {}, farm_id |-> Number(2)]}

BudgetFilters ==
  {EmptyDict, [budget_min |-> Number(3)], [budget_max |-> Number(3)],
   [budget_min |-> Number(0)], [budget_min |-> TextInvalid]}

FilterInputs ==
  LET ids == Dicts2(FarmFilters,
                    Dicts2(Optional("crop_id", {Number(1), TextInvalid}),
                           Optional("stage", {"growing", ""})))
      bounds == Dicts2(BudgetFilters,
                       Dicts2(Optional("date_from", {2}),
                              Dicts2(Optional("date_to", {2}),
                                     Optional("search", {"wheat"}))))
  IN  ids \cup bounds \cup Dicts2(FarmFilters, BudgetFilters)
          \cup Dicts2({[farm_ids |-> {1}, farm_id |-> Number(2),
                        crop_id |-> Number(1), stage |-> "growing"]}, bounds)

\* the database and the filters a request is made with
InitFilters ==
  /\ groups = [u \in Users |-> {}]
  /\ access = EmptyDict
  /\ calls = [c \in Callers |-> Idle]
  /\ projects \in FilterTables
  /\ bus = <<>>
  /\ crops = {}
  /\ filters \in FilterInputs
  /\ dashboards = EmptyDict
  /\ resp = NoResponse

\* _build_domain(filters) followed by the search, as every caller uses it
BuildDomain ==
  /\ LET d == build_domain(filters)
     IN resp' = [op |-> "build_domain", raised |-> d.raised, domain |-> d.domain,
                 found |-> IF d.raised THEN {} ELSE DOMAIN Search(projects, d.domain)]
  /\ UNCHANGED <<groups, access, calls, projectVars>>

\* the tabs whose handler starts with _build_domain(filters)
DomainTabs == {"overview", "projects", "reports"}

\* get_dashboard_data(filters, tab) for such a tab: the handler works on the
\* projects found, and an exception of _build_domain is an exception of the
\* handler's first query
FilteredTabPayload(gs, tab, table, f, today) ==
  LET d == build_domain(f)
  IN IF d.raised THEN TabPayload(gs, tab, table, "query", TRUE, today)
     ELSE TabPayload(gs, tab, Search(table, d.domain), "none", TRUE, today)

GetFilteredTabData(u, tab, today) ==
  /\ ~InFlight(u)
  /\ resp' = [op |-> "filtered_tab_data", user |-> u, tab |-> tab, today |-> today,
              result |-> FilteredTabPayload(groups[u], tab, projects, filters, today)]
  /\ UNCHANGED <<groups, access, calls, projectVars>>

NextFilters ==
  \/ BuildDomain
  \/ \E tab \in DomainTabs, t \in KpiDates : GetFilteredTabData(1, tab, t)

SpecFilters == InitFilters /\ [][NextFilters]_vars

(* --------------------------- farm.dashboard ----------------------------- *)
MaxDashboards == 2
DashboardIds == 1..MaxDashboards

\* the three groups that admit a user to the dashboard
AdmittingGroups == {GroupDashboardAccess, GroupFarmUser, GroupSystem}

\* the record create_default_dashboard creates; active takes its default
NewDashboard(user) ==
  [user_id |-> user, active |-> TRUE, dashboard_type |-> "overview",
   access_level |-> "user"]

\* self.search([('user_id', '=', user_id)], limit=1): the model has an active
\* field, so the search leaves archived records out; _order is create_date desc
SearchDashboard(table, user) ==
  LET found == {id \in DOMAIN table : table[id].user_id = user /\ table[id].active}
  IN  IF found = {} THEN NoRecord
      ELSE CHOOSE id \in found : \A other \in found : other <= id

\* create_default_dashboard(user_id)
create_default_dashboard(table, gs, user) ==
  IF ~(has_group(gs, GroupDashboardAccess) \/ has_group(gs, GroupFarmUser)
       \/ has_group(gs, GroupSystem))
  THEN [raised |-> TRUE, id |-> NoRecord, table |-> table]
  ELSE LET existing == SearchDashboard(table, user)
           id == Cardinality(DOMAIN table) + 1
       IN  IF existing # NoRecord
           THEN [raised |-> FALSE, id |-> existing, table |-> table]
           ELSE [raised |-> FALSE, id |-> id,
                 table |-> DictUpdate(table, [i \in {id} |-> NewDashboard(user)])]

CreateDefaultDashboard(u) ==
  LET r == create_default_dashboard(dashboards, groups[u], u)
  IN  /\ ~InFlight(u)
      /\ DOMAIN r.table \subseteq DashboardIds
      /\ dashboards' = r.table
      /\ resp' = [op |-> "create_default_dashboard", user |-> u,
                  raised |-> r.raised, id |-> r.id]
      /\ UNCHANGED <<accessVars, projects, bus, crops, filters>>

\* write({'active': value}) on a dashboard record: archiving and restoring
DashboardWrite(id, active) ==
  /\ id \in DOMAIN dashboards
  /\ dashboards' = [dashboards EXCEPT ![id].active = active]
  /\ resp' = [op |-> "dashboard_write", id |-> id]
  /\ UNCHANGED <<accessVars, projects, bus, crops, filters>>

Operations == {"read", "write", "create", "unlink"}

\* check_access_rights with the group test left out
check_access_rights_hostOnly(gs, operation, raise_exception, host) ==
  [raised |-> FALSE, result |-> host]

\* check_access_rights(operation, raise_exception); host is the answer of
\* super().check_access_rights(operation, raise_exception=False)
check_access_rights(gs, operation, raise_exception, host) ==
  IF ~FarmDashboard_check_dashboard_access(gs)
  THEN IF raise_exception THEN [raised |-> TRUE, result |-> FALSE]
       ELSE [raised |-> FALSE, result |-> FALSE]
  ELSE [raised |-> FALSE, result |-> host]

CheckAccessRights(u, operation, raise_exception, host) ==
  LET r == check_access_rights(groups[u], operation, raise_exception, host)
  IN  /\ ~InFlight(u)
      /\ resp' = [op |-> "check_access_rights", user |-> u, operation |-> operation,
                  raise_exception |-> raise_exception, host |-> host,
                  raised |-> r.raised, result |-> r.result]
      /\ UNCHANGED <<accessVars, projectVars>>

NextDashboard ==
  \/ \E u \in Users, g \in AdmittingGroups : SetGroup(u, g)
  \/ \E u \in Users : CreateDefaultDashboard(u)
  \/ \E id \in DashboardIds, active \in BOOLEAN : DashboardWrite(id, active)
  \/ \E u \in Users, operation \in Operations, raise_exception \in BOOLEAN,
        host \in BOOLEAN : CheckAccessRights(u, operation, raise_exception, host)

SpecDashboard == Init /\ [][NextDashboard]_vars

(* --------------------------- get_project_reports ------------------------ *)
\* what the daily reports of the host hold for a project: the model is not
\* installed, no report, some reports, or a query that raises
ReportSources == {"absent", "empty", "found", "raising"}

\* get_project_reports without the test that the project exists
get_project_reports_unchecked(table, project_id, reports) ==
  IF reports = "absent" THEN Failure("Daily report model not available")
  ELSE IF reports = "raising" THEN Failure("exception")
  ELSE [success |-> TRUE, reports |-> reports]

\* get_project_reports(project_id)
get_project_reports(table, project_id, reports) ==
  IF project_id \notin DOMAIN table THEN Failure("Project not found")
  ELSE IF reports = "absent" THEN Failure("Daily report model not available")
  ELSE IF reports = "raising" THEN Failure("exception")
  ELSE [success |-> TRUE, reports |-> reports]

GetProjectReports(project_id, reports) ==
  /\ resp' = [op |-> "get_project_reports", project_id |-> project_id,
              result |-> get_project_reports(projects, project_id, reports)]
  /\ UNCHANGED <<groups, access, calls, projectVars>>

\* the operations addressed to one project, on a growing project table
NextOneProject ==
  \/ \E d \in CreateDataInputs : CreateProject(d)
  \/ \E id \in ProjectIds, d \in UpdateDataInputs, ok \in BOOLEAN : UpdateProject(id, d, ok)
  \/ \E id \in ProjectIds, s \in StatusInputs, t \in Dates : UpdateProjectStatus(id, s, t)
  \/ \E id \in ProjectIds, t \in Dates : GetProjectDetails(id, t)
  \/ \E id \in ProjectIds, reports \in ReportSources : GetProjectReports(id, reports)

SpecOneProject == Init /\ [][NextOneProject]_vars

(* ------------------- two requests for permissions at once --------------- *)
\* two requests, each in its own transaction: both may search before either
\* creates
RaceCallers == {1, 2}

RaceGroups ==
  {{}, {GroupFarmOwner}, {GroupFarmManager}, {GroupFarmAccountant}, {GroupSystem},
   {GroupDashboardAccess}}

InitRace ==
  /\ groups \in [Users -> RaceGroups]
  /\ access = EmptyDict
  /\ calls = [c \in RaceCallers |-> Idle]
  /\ projects = EmptyDict
  /\ bus = <<>>
  /\ crops = {}
  /\ filters = EmptyDict
  /\ dashboards = EmptyDict
  /\ resp = NoResponse

NextRace ==
  \/ \E c \in RaceCallers, u \in Users : get_user_permissions_search(c, u)
  \/ \E c \in RaceCallers, raises \in BOOLEAN : get_user_permissions_finish(c, raises)

SpecRace == InitRace /\ [][NextRace]_vars

(* ----------------------------- stock.move ------------------------------- *)
\* the picking of a stock move: none, one whose origin is unset (an unset Char
\* field reads as False), one whose origin names the farm, one with another
\* origin
Pickings == {"none", "no_origin", "farm_origin", "other_origin"}

\* 'farm' in record.picking_id.origin.lower(): False has no lower()
OriginTest(picking) ==
  [raised |-> picking = "no_origin", value |-> picking = "farm_origin"]

\* the condition of line 189: daily_report_id or (picking_id and ...)
FarmRelated(move) ==
  IF move.daily_report THEN [raised |-> FALSE, value |-> TRUE]
  ELSE IF move.picking = "none" THEN [raised |-> FALSE, value |-> FALSE]
  ELSE OriginTest(move.picking)

RECURSIVE StockMoveSends(_)
\* the loop over self: the notifications up to the first record whose test
\* raises
StockMoveSends(recs) ==
  IF recs = <<>> THEN [sends |-> <<>>, raised |-> FALSE]
  ELSE LET r == Head(recs)
           t == FarmRelated(r)
           rest == StockMoveSends(Tail(recs))
           mine == IF t.value
                     THEN <<[type |-> "stock_move_validated", for_id |-> r.id,
                             company_id |-> r.company_id],
                            InvalidateCache(r.id, r.company_id)>>
                     ELSE <<>>
       IN  IF t.raised THEN [sends |-> <<>>, raised |-> TRUE]
           ELSE [sends |-> mine \o rest.sends, raised |-> rest.raised]

\* StockMoveBusHandler.write(vals)
stock_move_write(recs, vals, env_company, failing) ==
  LET after == [i \in DOMAIN recs |-> HostWritten(recs[i], vals)]
      done == "state" \in DOMAIN vals /\ vals.state = "done"
      s == IF done THEN StockMoveSends(after) ELSE [sends |-> <<>>, raised |-> FALSE]
      out == SendAll(s.sends, env_company, failing, <<>>)
  IN [after |-> after, log |-> out.log, raised |-> s.raised \/ out.raised]

Move(id, daily_report, picking) ==
  [id |-> id, state |-> "assigned", company_id |-> 1, daily_report |-> daily_report,
   picking |-> picking]

\* the recordsets written: one move or two
MoveRecordsets ==
  {<<Move(1, d, p)>> : d \in BOOLEAN, p \in Pickings}
  \cup {<<Move(1, d, p), Move(2, FALSE, q)>> :
          d \in BOOLEAN, p \in Pickings, q \in Pickings}

MoveWriteVals == Optional("state", {"done", "cancel"})

StockMoveWrite(recs, vals, env_company, failing) ==
  /\ LET w == stock_move_write(recs, vals, env_company, failing)
     IN /\ bus' = w.log
        /\ resp' = [op |-> "stock_move.write",
                    status |-> IF w.raised THEN "raised" ELSE "ok",
                    vals |-> vals, before |-> recs,
                    after |-> IF w.raised THEN recs ELSE w.after]
  /\ UNCHANGED <<accessVars, projects, crops, filters, dashboards>>

NextStock ==
  \E recs \in MoveRecordsets, vals \in MoveWriteVals,
     f \in {{}, {"stock_move_validated"}} : StockMoveWrite(recs, vals, 1, f)

SpecStock == Init /\ [][NextStock]_vars

(* =============================== claims ================================ *)
\* the per-role matrix as the specification states it (section 4.1)
TemplateTabs(r) == [t \in Tabs |-> ~(r = "accountant" /\ t \in {"projects", "crops"})]

TemplateCapabilities(r) ==
  [c \in Capabilities |->
     ~(\/ r = "manager" /\ c = "view_profits"
       \/ r = "accountant" /\ c = "modify_filters")]

TemplatePermissions(r) ==
  [role |-> r, tabs |-> TemplateTabs(r), permissions |-> TemplateCapabilities(r)]

OnTemplate(rec) ==
  /\ \A t \in Tabs : rec.flags[TabFlag(t)] = TemplateTabs(rec.role)[t]
  /\ \A c \in Capabilities : rec.flags[CapFlag(c)] = TemplateCapabilities(rec.role)[c]

\* the role the priority order of section 4.1 gives a set of groups
PriorityRole(gs) ==
  CASE GroupSystem \in gs \/ GroupErpManager \in gs -> "owner"
    [] GroupFarmOwner \in gs -> "owner"
    [] GroupFarmManager \in gs -> "manager"
    [] GroupFarmAccountant \in gs -> "accountant"
    [] OTHER -> "no_access"

Returned == resp.op = "get_user_permissions"

\* C1: get_user_permissions resolves the role from the user's groups alone, by
\* the priority order system or ERP admin: owner; else farm owner: owner; else
\* farm manager: manager; else farm accountant: accountant, whatever access
\* records are stored; a user in none of the groups gets no_access with the
\* eight tab flags and the four capability flags false, and only such a user.
C1_RoleFromGroupsAlone ==
  /\ \A c \in Callers :
       calls[c].pc = "searched" => calls[c].role = PriorityRole(groups[calls[c].user])
  /\ Returned =>
       /\ (resp.result.role = "no_access") = (PriorityRole(groups[resp.user]) = "no_access")
       /\ resp.result.role = "no_access" =>
            /\ \A t \in Tabs : ~resp.result.tabs[t]
            /\ \A c \in Capabilities : ~resp.result.permissions[c]

\* C1 witness: a user in the manager and the accountant group, with a stored
\* record of another role, has been resolved to manager.
C1_Witness ==
  \E c \in Callers :
    /\ calls[c].pc = "searched"
    /\ groups[calls[c].user] = {GroupFarmManager, GroupFarmAccountant}
    /\ calls[c].rec # NoRecord
    /\ calls[c].snap.role = "accountant"
    /\ calls[c].role = "manager"

\* C4: a get_user_permissions call for a user whose groups resolve to role r
\* returns r with exactly the twelve flags of r's template, whatever the stored
\* access record held before the call.
C4_TemplateAfterRoleChange ==
  (Returned /\ PriorityRole(groups[resp.user]) # "no_access") =>
    resp.result = TemplatePermissions(PriorityRole(groups[resp.user]))

\* C5: when the self-healing write or the create of the missing record fails,
\* get_user_permissions returns the role resolved from the groups with that
\* role's template flags.
C5_TemplateOnPersistenceFailure ==
  (Returned /\ resp.persist \in {"write_failed", "create_failed"}) =>
    resp.result = TemplatePermissions(PriorityRole(groups[resp.user]))

\* what the access resolver reports for user u in the current state (its answer
\* when the record it heals or creates is stored)
ResolverReports(u) ==
  LET r == PriorityRole(groups[u])
      rec == SearchAccess(access, u)
  IN IF r = "no_access" THEN NoAccessPermissions
     ELSE IF rec # NoRecord /\ access[rec].role = r THEN RecordPermissions(access[rec])
     ELSE TemplatePermissions(r)

\* C2: get_dashboard_data returns the data of a tab only to a caller for whom
\* the access resolver reports access to that tab, and a caller the resolver
\* reports as no_access gets a permission-denied condition instead of data.
C2_DataGatedByResolver ==
  resp.op = "get_dashboard_data" =>
    /\ resp.result.kind = "data" => ResolverReports(resp.user).tabs[resp.result.handler]
    /\ ResolverReports(resp.user).role = "no_access" =>
         resp.result.kind \in {"AccessError", "error"}

\* C3 as stated: in every reachable state every access record's twelve flags
\* equal the template of the record's role.
C3_FlagsAlwaysOnTemplate == \A i \in DOMAIN access : OnTemplate(access[i])

\* C3 as amended: every create, and every write whose values carry a role,
\* leaves each record it touched with the twelve flags of the template of the
\* role just stored, whatever flags the values carried next to the role (a
\* write that carries flags and no role stores those flags as given).
C3_RoleAssignmentOverwritesFlags ==
  (resp.op \in {"access.create", "access.write"} /\ resp.with_role) =>
    \A i \in resp.ids : OnTemplate(access[i])

\* C3 witness: a write that carries a role has rewritten two records at once,
\* one of them to manager.
C3_Witness ==
  /\ resp.op = "access.write"
  /\ resp.with_role
  /\ Cardinality(resp.ids) = 2
  /\ \E i \in resp.ids : access[i].role = "manager"

\* the transition graph as the specification states it (section 4.3)
GraphEdges ==
  [s \in ProjectStates |->
     CASE s = "draft" -> {"planning", "cancel"}
       [] s = "planning" -> {"preparation", "cancel"}
       [] s = "preparation" -> {"sowing", "cancel"}
       [] s = "sowing" -> {"growing", "cancel"}
       [] s = "growing" -> {"harvest", "cancel"}
       [] s = "harvest" -> {"sales", "done", "cancel"}
       [] s = "sales" -> {"done", "cancel"}
       [] OTHER -> {}]

\* C6: update_project_status changes a project's state only along an edge of
\* the transition graph: a request along an edge is accepted and stores the new
\* state, every other request leaves the project's state as it was, after any
\* sequence of update_project_status and update_multiple_project_status calls.
C6_StatusFollowsGraph ==
  [][(resp'.op = "update_project_status" /\ resp'.project_id \in DOMAIN projects) =>
       LET id == resp'.project_id
       IN IF resp'.new_status \in GraphEdges[projects[id].state]
            THEN resp'.result.success /\ projects'[id].state = resp'.new_status
            ELSE projects'[id].state = projects[id].state]_vars

\* a project's actual end date goes from empty to set in this step
EndDateSet(id) ==
  /\ id \in DOMAIN projects
  /\ id \in DOMAIN projects'
  /\ projects[id].actual_end_date = NoDate
  /\ projects'[id].actual_end_date # NoDate

\* C7 as stated: over create_project, update_project, update_project_status and
\* update_multiple_project_status, a project's actual end date goes from empty
\* to set only in a step that leaves the project in state done.
C7_EndDateOnlyOnDone ==
  [][\A id \in ProjectIds : EndDateSet(id) => projects'[id].state = "done"]_vars

\* C7 as amended: a project's actual end date goes from empty to set only in
\* an update_project_status call that asks for status done for that project,
\* alone or as an element of update_multiple_project_status, or in an
\* update_project call on that project whose data carries actual_end_date.
C7_EndDateOnDoneOrByUpdate ==
  [][\A id \in ProjectIds :
       EndDateSet(id) =>
         \/ /\ resp'.op = "update_project_status"
            /\ resp'.project_id = id
            /\ resp'.new_status = "done"
         \/ /\ resp'.op = "update_multiple_project_status"
            /\ \E k \in DOMAIN resp'.updates :
                 resp'.updates[k] = [project_id |-> id, new_status |-> "done"]
         \/ /\ resp'.op = "update_project"
            /\ resp'.project_id = id
            /\ "actual_end_date" \in DOMAIN resp'.data]_vars

\* C7 witness: update_project_status has moved a harvested project to done and
\* stamped its actual end date.
C7_Witness ==
  /\ resp.op = "update_project_status"
  /\ resp.result.success
  /\ resp.result.old_status = "harvest"
  /\ resp.result.actual_end_date # NoDate
  /\ projects[resp.project_id].state = "done"
  /\ projects[resp.project_id].actual_end_date = resp.result.actual_end_date

\* the publish calls of the last operation made for record id with type t
CallsFor(id, t) == {i \in DOMAIN bus : bus[i].for_id = id /\ bus[i].type = t}

\* C8: a create of cultivation projects makes, for each created record, exactly
\* one publish call of type project_created and exactly one of type
\* invalidate_cache, both on the channel farm_dashboard_{company id of the
\* record}, and no call for that record on another channel.
C8_OneEventPairPerCreated ==
  resp.op = "project.create" =>
    \A id \in resp.ids :
      /\ Cardinality(CallsFor(id, "project_created")) = 1
      /\ Cardinality(CallsFor(id, "invalidate_cache")) = 1
      /\ \A i \in DOMAIN bus :
           bus[i].for_id = id =>
             bus[i].channel = "farm_dashboard_" \o ToString(projects[id].company_id)

\* C8 witness: one create has made two projects of different companies, one of
\* them not the current company, and four publish calls.
C8_Witness ==
  /\ resp.op = "project.create"
  /\ resp.ids = {1, 2}
  /\ projects[1].company_id # projects[2].company_id
  /\ Len(bus) = 4
  /\ \E i \in DOMAIN bus : bus[i].channel = "farm_dashboard_2"
  /\ \E i \in DOMAIN bus : bus[i].channel = "farm_dashboard_1"

\* the last operation's change is stored
ChangeKept ==
  CASE resp.op = "project.create" -> resp.ids \subseteq DOMAIN projects
    [] resp.op = "project.write" ->
         \A id \in resp.ids : \A f \in DOMAIN resp.vals : projects[id][f] = resp.vals[f]
    [] resp.op = "project.unlink" -> resp.ids \cap DOMAIN projects = {}
    [] resp.op = "doc.write" ->
         \A k \in DOMAIN resp.after : resp.after[k].state = "confirmed"
    [] OTHER -> TRUE

\* C9: when a publish call of a watched create, write or unlink fails, the
\* operation still completes with the host's result and the record change is
\* kept.
C9_PublishFailureContained ==
  (resp.op \in {"project.create", "project.write", "project.unlink", "doc.write"}
   /\ \E i \in DOMAIN bus : ~bus[i].delivered) =>
    /\ resp.status = "ok"
    /\ ChangeKept

\* C9 witness: an unlink of two projects has completed although the bus
\* refused every one of its four messages.
C9_Witness ==
  /\ resp.op = "project.unlink"
  /\ resp.status = "ok"
  /\ Cardinality(resp.ids) = 2
  /\ Len(bus) = 4
  /\ \A i \in DOMAIN bus : ~bus[i].delivered
  /\ resp.ids \cap DOMAIN projects = {}

\* C10: a project write publishes project_state_changed for a record only when
\* the record's state differs from the one before the write and
\* project_financial_updated only when its budget, actual cost or revenue
\* differs; a daily-report, purchase-order or sale-order write publishes its
\* state-changed event for a record only when the write changed that record's
\* state.
C10_EventsOnlyOnChange ==
  [][/\ resp'.op = "project.write" =>
          \A i \in DOMAIN bus' :
            LET id == bus'[i].for_id
            IN /\ bus'[i].type = "project_state_changed" =>
                    projects'[id].state # projects[id].state
               /\ bus'[i].type = "project_financial_updated" =>
                    \E f \in FinancialFields : projects'[id][f] # projects[id][f]
     /\ resp'.op = "doc.write" =>
          \A i \in DOMAIN bus' :
            bus'[i].type = DocEvent(resp'.model) =>
              \E k \in DOMAIN resp'.before :
                /\ resp'.before[k].id = bus'[i].for_id
                /\ resp'.before[k].state # resp'.after[k].state]_vars

\* C11: for every one of the eight tabs, an unexpected exception raised while
\* the tab handler queries or computes is caught at the handler boundary and
\* get_dashboard_data returns that tab's static demo payload, never an error
\* payload.
C11_FaultGivesDemoPayload ==
  (resp.op = "tab_data" /\ Raising(resp.fault)) =>
    /\ resp.result.kind = "data"
    /\ resp.result.path = "demo"
    /\ resp.result.handler = DispatchedHandler(resp.tab)

\* C12: every payload get_dashboard_data returns, for every tab and on the live
\* and the fallback path alike, carries a data_source that is live or demo.
C12_DataSourceAlwaysPresent ==
  resp.op = "tab_data" => resp.result.data_source \in {"live", "demo"}

\* C13: when no cultivation project exists, get_dashboard_data({}, "overview")
\* returns a payload whose data_source is demo.
C13_NoProjectsGivesDemo ==
  (/\ resp.op = "tab_data"
   /\ resp.tab = "overview"
   /\ resp.fault = "none"
   /\ DOMAIN projects = {}) => resp.result.data_source = "demo"

\* C20: get_dashboard_data runs the handler named by tab for each of the eight
\* tab names, and the overview handler when tab is absent, empty or any other
\* value.
C20_DispatchOnTab ==
  resp.op = "tab_data" =>
    /\ resp.tab \in Tabs => resp.result.handler = resp.tab
    /\ resp.tab \notin Tabs => resp.result.handler = "overview"
    /\ (resp.fault = "none" /\ resp.rows) =>
         (resp.result.kind = "data" /\ resp.result.path = "live")

\* C20 witness: an unknown tab and an absent tab answered by the live overview
\* handler, a named tab by its own
C20_Witness ==
  /\ resp.op = "tab_data"
  /\ resp.tab = "settings"
  /\ resp.fault = "none"
  /\ resp.result.kind = "data"
  /\ resp.result.handler = "overview"
  /\ resp.result.path = "live"
  /\ "kpis" \in DOMAIN resp.result

\* the projects every filter-free request matches, and their totals
TotalBudget == SumOf(projects, DOMAIN projects, "budget")

TotalActualCost == SumOf(projects, DOMAIN projects, "actual_cost")

TotalRevenue == SumOf(projects, DOMAIN projects, "revenue")

\* v, in hundredths of a percent, is n / d * 100 to two decimals, and exactly 0
\* when the denominator d is 0
IsPercentOf(v, n, d) ==
  IF d = 0 THEN v = 0
  ELSE LET diff == v * d - n * 10000
       IN 2 * (IF diff < 0 THEN -diff ELSE diff) <= d

\* a live overview answer over a non-empty project table, no fault injected
LiveOverview ==
  /\ resp.op = "tab_data"
  /\ resp.result.kind = "data"
  /\ resp.result.handler = "overview"
  /\ resp.result.path = "live"
  /\ resp.fault = "none"
  /\ DOMAIN projects # {}

\* the two ratios are in the KPIs with the stated values
RatiosReported(kpis) ==
  /\ {"budget_variance", "profit_margin"} \subseteq DOMAIN kpis
  /\ IsPercentOf(kpis.budget_variance, TotalActualCost - TotalBudget, TotalBudget)
  /\ IsPercentOf(kpis.profit_margin, TotalRevenue - TotalActualCost, TotalRevenue)

\* C14: for every caller given overview data and every non-empty set of
\* matching projects, the overview KPIs contain budget_variance =
\* (total_actual_cost - total_budget) / total_budget * 100 and profit_margin =
\* total_profit / total_revenue * 100, each exactly 0 when its denominator is 0.
C14_RatiosForEveryCaller ==
  LiveOverview => RatiosReported(resp.result.kpis)

\* the KPI dictionary of the last answer, when it has one: the overview payload
\* (live, zero or canned) and the totals of the KPI helper
KpiPayloads ==
  IF resp.op = "tab_data" /\ resp.result.kind = "data" /\ resp.result.handler = "overview"
    THEN {resp.result.kpis}
  ELSE IF resp.op \in {"calculate_overview_kpis", "calculate_financial_kpis"}
    THEN {resp.result}
  ELSE {}

StatedProgress ==
  [draft |-> 0, planning |-> 10, preparation |-> 20, sowing |-> 35, growing |-> 60,
   harvest |-> 80, sales |-> 95, done |-> 100, cancel |-> 0]

\* the per-project entries of the last answer: the projects tab and
\* get_project_details
ProjectEntries ==
  IF /\ resp.op = "tab_data"
     /\ resp.result.kind = "data"
     /\ resp.result.handler = "projects"
     /\ resp.result.path = "live"
    THEN {<<projects[i], resp.result.projects[i]>> : i \in DOMAIN resp.result.projects}
  ELSE IF resp.op = "get_project_details" /\ resp.result.success
    THEN {<<projects[resp.project_id], resp.result.project>>}
  ELSE {}

\* C16: the progress of a project is a function of its state alone, by the
\* fixed table: progress_percentage in the projects tab and in
\* get_project_details equal the table value of the project's state, whatever
\* its dates, and lie in 0..100.
C16_ProgressByStateTable ==
  /\ \A e \in ProjectEntries :
       /\ e[2].progress_percentage = StatedProgress[e[1].state]
       /\ e[2].progress_percentage \in 0..100
  /\ resp.op = "get_project_analytics" =>
       \A i \in DOMAIN projects : resp.result.progress[i] = StatedProgress[projects[i].state]

\* the overdue rule of section 4.3
StatedOverdue(project, today) ==
  IF project.planned_end_date = NoDate THEN FALSE
  ELSE IF project.state = "done"
    THEN project.actual_end_date # NoDate
         /\ project.actual_end_date > project.planned_end_date
  ELSE IF project.state = "cancel" THEN FALSE
  ELSE project.planned_end_date < today

\* C17: every overdue flag and overdue count follows one rule: a project that
\* is neither done nor cancelled is overdue when planned_end_date < today, a done
\* project when its actual_end_date is later than planned_end_date, a cancelled
\* project or one without planned_end_date never.
C17_OneOverdueRule ==
  /\ \A e \in ProjectEntries : e[2].is_overdue = StatedOverdue(e[1], resp.today)
  /\ resp.op \in {"get_project_analytics", "calculate_projects_kpis"} =>
       resp.result.overdue_projects =
         Cardinality({i \in DOMAIN projects : StatedOverdue(projects[i], resp.today)})

\* the active_projects counts of the last answer
ActiveCounts ==
  IF resp.op = "tab_data" /\ resp.result.kind = "data" /\ resp.result.path = "live"
    THEN IF resp.fault # "none" THEN {}
         ELSE IF resp.result.handler = "overview" THEN {resp.result.kpis.active_projects}
         ELSE {resp.result.stats.active_projects}
  ELSE IF resp.op \in {"calculate_overview_kpis", "calculate_projects_kpis",
                       "get_project_analytics"}
    THEN {resp.result.active_projects}
  ELSE {}

\* C18: every active_projects count (overview KPIs, projects tab statistics,
\* KPI helper, project analytics) is the number of matching projects whose state
\* is preparation, sowing, growing, harvest or sales.
C18_OneActiveStateSet ==
  \A n \in ActiveCounts :
    n = Cardinality({i \in DOMAIN projects :
                       projects[i].state \in
                         {"preparation", "sowing", "growing", "harvest", "sales"}})

\* the farm_management records of the model: cultivation projects and crops
HostEntities == <<projects, crops>>

\* the operations that write farm_management records
WritePaths ==
  {"create_project", "update_project", "update_project_status",
   "update_multiple_project_status", "create_crop", "create_sample_cultivation_projects"}

\* C19: no operation of the module creates, modifies or deletes a
\* farm_management entity: whatever operation is called, the cultivation projects
\* and the crops stay as they were.
C19_HostEntitiesNeverWritten ==
  [][HostEntities' = HostEntities]_vars

\* C19 as the code has it: cultivation projects and crops are created or
\* modified by create_project, update_project, update_project_status,
\* update_multiple_project_status, create_crop and
\* create_sample_cultivation_projects and by no other operation, and no
\* operation deletes one.
C19_HostEntitiesWrittenByWritePathsOnly ==
  [][/\ HostEntities' # HostEntities => resp'.op \in WritePaths
     /\ DOMAIN projects \subseteq DOMAIN projects'
     /\ crops \subseteq crops']_vars

\* C19 witness: a crop and a project created through the module, and a project
\* modified by it
C19_Witness ==
  /\ "Corn" \in crops
  /\ resp.op = "update_project_status"
  /\ resp.result.success
  /\ resp.project_id \in DOMAIN projects
  /\ projects[resp.project_id].state = resp.new_status
  /\ resp.result.old_status # resp.new_status

\* a filter key is supplied with a value that counts: present, not empty, and
\* for an id or a budget bound a number other than zero
Given(f, key) ==
  key \in DOMAIN f /\
    CASE key \in {"date_from", "date_to"} -> f[key] # NoDate
      [] key = "farm_ids" -> f[key] # {}
      [] key \in {"stage", "search"} -> f[key] # ""
      [] OTHER -> f[key].truthy /\ f[key].parsable /\ f[key].num # 0

\* the project satisfies every filter supplied, a farm_ids list standing for
\* the farm filter when both farm keys are given (section 4.2)
SatisfiesFilters(f, rec) ==
  /\ Given(f, "date_from") => (rec.start_date # NoDate /\ rec.start_date >= f.date_from)
  /\ Given(f, "date_to") => (rec.start_date # NoDate /\ rec.start_date <= f.date_to)
  /\ Given(f, "farm_ids") => rec.farm_id \in f.farm_ids
  /\ (~Given(f, "farm_ids") /\ Given(f, "farm_id")) => rec.farm_id = f.farm_id.num
  /\ Given(f, "crop_id") => rec.crop_id = f.crop_id.num
  /\ Given(f, "stage") => rec.state = f.stage
  /\ Given(f, "search") => (f.search \in rec.name \/ f.search \in rec.code)
  /\ Given(f, "budget_min") => rec.budget >= f.budget_min.num
  /\ Given(f, "budget_max") => rec.budget <= f.budget_max.num

\* the number of leaves of a domain on a field with an operator
Leaves(domain, field, op) ==
  {i \in 1..Len(domain) :
     domain[i].kind = "leaf" /\ domain[i].field = field /\ domain[i].op = op}

\* C21: the predicate built by build_domain has a clause for a filter key
\* exactly when the key is present with a truthy (for farm_id and crop_id, valid)
\* value, the clauses are conjoined except the name-or-code disjunction of
\* search, the date and budget bounds are inclusive and build_domain({}) is the
\* empty predicate: the projects matched are exactly those that satisfy every
\* supplied filter.
C21_DomainMatchesSuppliedFilters ==
  resp.op = "build_domain" =>
    /\ ~resp.raised
    /\ resp.found = {i \in DOMAIN projects : SatisfiesFilters(filters, projects[i])}
    /\ filters = EmptyDict => resp.domain = <<>>
    /\ \A key \in {"budget_min", "budget_max"} :
         (key \in DOMAIN filters /\ filters[key].truthy)
           <=> Leaves(resp.domain, "budget", IF key = "budget_min" THEN ">=" ELSE "<=") # {}

\* every budget bound of the filters is a number
BudgetsNumeric(f) ==
  \A key \in {"budget_min", "budget_max"} : key \in DOMAIN f => f[key].parsable

\* C22: in build_domain a non-empty farm_ids list takes precedence over farm_id
\* (the singular key then adds no clause), and a farm_id or crop_id that cannot
\* be parsed as an integer adds no clause and raises no error, the other filters
\* still being applied.
C22_FarmIdsFirstAndInvalidIdsIgnored ==
  (resp.op = "build_domain" /\ BudgetsNumeric(filters)) =>
    /\ ~resp.raised
    /\ Given(filters, "farm_ids") =>
         /\ Leaves(resp.domain, "farm_id", "=") = {}
         /\ \E i \in Leaves(resp.domain, "farm_id", "in") :
              resp.domain[i].value = filters.farm_ids
    /\ ("farm_id" \in DOMAIN filters /\ ~filters.farm_id.parsable) =>
         Leaves(resp.domain, "farm_id", "=") = {}
    /\ ("crop_id" \in DOMAIN filters /\ ~filters.crop_id.parsable) =>
         Leaves(resp.domain, "crop_id", "=") = {}
    /\ resp.found = {i \in DOMAIN projects : SatisfiesFilters(filters, projects[i])}

\* C22 witness: both farm keys given, an unparsable crop_id and a stage; the
\* projects of the listed farm in that stage are found, whatever the singular key
C22_Witness ==
  /\ resp.op = "build_domain"
  /\ Given(filters, "farm_ids")
  /\ Given(filters, "farm_id")
  /\ filters.farm_id.num \notin filters.farm_ids
  /\ "crop_id" \in DOMAIN filters
  /\ ~filters.crop_id.parsable
  /\ Given(filters, "stage")
  /\ ~resp.raised
  /\ resp.found # {}
  /\ resp.found # DOMAIN projects

\* the filters without the budget bounds that are not numbers
WithoutInvalidBudgets(f) ==
  LET keep == {key \in DOMAIN f :
                 ~(key \in {"budget_min", "budget_max"} /\ ~f[key].parsable)}
  IN  [key \in keep |-> f[key]]

\* C29: build_domain returns a predicate and raises nothing for every filter
\* payload, a budget_min or budget_max that is not numeric included, so an
\* invalid budget bound never turns a live overview or projects payload into
\* the demo payload.
C29_InvalidBudgetBoundTolerated ==
  /\ resp.op = "build_domain" => ~resp.raised
  /\ (resp.op = "filtered_tab_data" /\ resp.tab \in {"overview", "projects"}) =>
       LET ignoring == FilteredTabPayload(groups[resp.user], resp.tab, projects,
                                          WithoutInvalidBudgets(filters), resp.today)
       IN  (ignoring.kind = "data" /\ ignoring.path = "live") =>
             (resp.result.kind = "data" /\ resp.result.path = "live")

\* the dashboard records of a user, archived ones included
DashboardsOf(u) == {id \in DOMAIN dashboards : dashboards[id].user_id = u}

\* C23: create_default_dashboard(user), for a user in one of the three
\* admitting groups, returns the user's existing dashboard record when one
\* exists and otherwise creates one with dashboard_type overview and
\* access_level user; after any number of calls for the same user the factory
\* has created at most one record and every call returns that same record.
C23_OneDefaultDashboardPerUser ==
  /\ \A u \in Users : Cardinality(DashboardsOf(u)) <= 1
  /\ (resp.op = "create_default_dashboard"
      /\ groups[resp.user] \cap AdmittingGroups # {}) =>
       /\ ~resp.raised
       /\ DashboardsOf(resp.user) = {resp.id}
       /\ dashboards[resp.id].dashboard_type = "overview"
       /\ dashboards[resp.id].access_level = "user"

\* C24: for read, write, create and unlink on a dashboard record,
\* check_access_rights denies (raises AccessError when raise_exception is true,
\* returns False otherwise) whenever the current user is neither a system
\* administrator nor in the dashboard-access group nor in the farm-user group,
\* and it grants only when the host's own access check grants as well.
C24_AccessRightsGated ==
  resp.op = "check_access_rights" =>
    /\ groups[resp.user] \cap AdmittingGroups = {} =>
         /\ resp.raise_exception => resp.raised
         /\ ~resp.raise_exception => (~resp.raised /\ resp.result = FALSE)
    /\ (~resp.raised /\ resp.result = TRUE) =>
         (resp.host /\ groups[resp.user] \cap AdmittingGroups # {})

\* C24 witness: the host grants unlink, the caller is in no admitting group and
\* the check raises
C24_Witness ==
  /\ resp.op = "check_access_rights"
  /\ resp.operation = "unlink"
  /\ groups[resp.user] \cap AdmittingGroups = {}
  /\ resp.host
  /\ resp.raise_exception
  /\ resp.raised

\* the operations that are addressed to one project
OneProjectOperations ==
  {"get_project_details", "get_project_reports", "update_project",
   "update_project_status"}

\* C25: an operation addressed to a project id that does not exist
\* (get_project_details, get_project_reports, update_project,
\* update_project_status) raises nothing, returns a structured error payload
\* naming the project as not found, changes no record and publishes no event
\* (the log of a write operation is empty, a read leaves the log as it was).
C25_MissingProjectReported ==
  [][(resp'.op \in OneProjectOperations /\ resp'.project_id \notin DOMAIN projects) =>
       /\ "error" \in DOMAIN resp'.result
       /\ resp'.result.error = "Project not found"
       /\ ~resp'.result.success
       /\ projects' = projects
       /\ crops' = crops
       /\ access' = access
       /\ dashboards' = dashboards
       /\ bus' = IF resp'.op \in {"update_project", "update_project_status"}
                 THEN <<>> ELSE bus]_vars

\* C25 witness: a status update addressed to the second project when only the
\* first exists
C25_Witness ==
  /\ resp.op = "update_project_status"
  /\ resp.new_status \in ProjectStates
  /\ DOMAIN projects = {1}
  /\ resp.project_id = 2
  /\ resp.result = Failure("Project not found")

\* the role get_user_permissions resolves from the groups, by its name in the
\* permission set
ResolvedRoleName(gs) ==
  IF ResolveRole(gs) = NoRole THEN NoAccessPermissions.role ELSE ResolveRole(gs)

\* C26: the role the data facade derives for a caller (_get_user_role) equals
\* the role get_user_permissions resolves for the same user, for every
\* combination of group memberships, a system administrator without farm
\* groups and a user without any farm group included.
C26_FacadeRoleIsResolvedRole ==
  resp.op = "get_user_permissions" =>
    get_user_role(groups[resp.user]) = ResolvedRoleName(groups[resp.user])

\* the active access records of a user
ActiveAccessOf(u) ==
  {i \in DOMAIN access : access[i].user_id = u /\ access[i].active}

\* C27: after any sequence of get_user_permissions calls for a user, two calls
\* whose search and create steps interleave included, there is at most one
\* active access record for that user, and a call made when an active record
\* with the resolved role already exists writes nothing.
C27_OneActiveAccessRecord ==
  /\ [](\A u \in Users : Cardinality(ActiveAccessOf(u)) <= 1)
  /\ [][\A c \in DOMAIN calls :
          (calls[c].pc = "searched" /\ calls'[c].pc = "idle"
           /\ calls[c].rec # NoRecord /\ calls[c].snap.role = calls[c].role)
            => access' = access]_vars

\* a move is farm-tagged: it has a daily report, or its picking's origin names
\* the farm
FarmTagged(move) == move.daily_report \/ move.picking = "farm_origin"

\* C28: the notification code never makes a stock-move write fail: a write that
\* sets state to done on any stock move, a move without daily report whose
\* picking has no origin text included, completes and returns the host's
\* result, and events are published for the farm-tagged moves only.
C28_StockMoveWriteNeverFails ==
  (resp.op = "stock_move.write" /\ "state" \in DOMAIN resp.vals
   /\ resp.vals.state = "done") =>
    /\ resp.status = "ok"
    /\ \A i \in DOMAIN resp.after : resp.after[i].state = "done"
    /\ {bus[i].for_id : i \in DOMAIN bus}
         = {resp.before[i].id : i \in {j \in DOMAIN resp.before : FarmTagged(resp.before[j])}}

\* the positions of the updates that succeeded
Succeeded(results) == {i \in DOMAIN results : results[i].result.success}

\* C30: update_multiple_project_status applies its updates in list order and
\* independently: a failed update neither stops nor undoes the others, the
\* result has one entry per update in the order given, updated_count is the
\* number of successful updates, and afterwards each successfully updated
\* project is in the state of the last successful update addressed to it.
C30_UpdatesIndependentAndOrdered ==
  resp.op = "update_multiple_project_status" =>
    LET us == resp.updates
        rs == resp.result.results
    IN  /\ resp.result.success
        /\ Len(rs) = Len(us)
        /\ \A i \in DOMAIN us :
             /\ rs[i].project_id = us[i].project_id
             /\ rs[i].result.success
                  <=> (us[i].project_id \in DOMAIN projects
                       /\ us[i].new_status \in ProjectStates)
        /\ resp.result.updated_count = Cardinality(Succeeded(rs))
        /\ \A i \in Succeeded(rs) :
             LET same == {j \in Succeeded(rs) : us[j].project_id = us[i].project_id}
                 last == CHOOSE j \in same : \A k \in same : k <= j
             IN  projects[us[i].project_id].state = us[last].new_status

\* C30 witness: the first update fails on a missing project, the second
\* succeeds
C30_Witness ==
  /\ resp.op = "update_multiple_project_status"
  /\ Len(resp.updates) = 2
  /\ resp.updates[1].project_id \notin DOMAIN projects
  /\ ~resp.result.results[1].result.success
  /\ resp.result.results[2].result.success
  /\ resp.result.updated_count = 1
  /\ projects[resp.updates[2].project_id].state = resp.updates[2].new_status

====
